---- MODULE Spec2Model ----
\* A model of premiere-mcp: the segment matcher
\* (src/src/analyzer/segment-finder.ts), the analysis record store
\* (src/src/cache/store.ts) and the two orchestrators, transcribeVideo
\* (src/src/analyzer/whisper.ts) and analyzeVideoVisual with
\* extractVideoFrames (src/unnamed/part_004, src/unnamed/part_003), and the
\* WebSocket client PremiereBridge (src/src/premiere/bridge.ts).
\*
\* Units.  Times are counted in ticks of half a second, so that the default
\* expandBy (0.5 s) is 1 tick and the frame interval 1/fps is 2 ticks at
\* fps = 1 and 1 tick at fps = 2.  Confidences are counted in hundredths
\* (1.0 is 100, 0.8 is 80).  The strings that the program takes apart (texts,
\* queries, JSON) are sequences of one-character strings; identifiers, paths
\* and error messages are strings.  An optional value is <<>> when absent and
\* <<v>> when present.
EXTENDS Integers, Sequences, FiniteSets, TLC

VARIABLES
    speechAnalysis,   \* findSegments: parameter speechAnalysis (a record or NULL)
    visualAnalysis,   \* findSegments: parameter visualAnalysis (a record or NULL)
    options,          \* findSegments: parameter options, defaults applied
    pc,               \* "call" before findSegments has run, "done" after, "idle"
    segments,         \* findSegments: the local `segments` (all candidates)
    filtered,         \* findSegments: `filtered` after the duration filter
    merged,           \* findSegments: `filtered` after mergeOverlappingSegments
    results,          \* findSegments: the returned list
    mergeIn,          \* mergeOverlappingSegments: its argument
    mergeOut,         \* mergeOverlappingSegments(mergeIn)
    mergeAgain,       \* mergeOverlappingSegments(mergeOut)
    mpc,              \* "in", "once", "twice", or "idle"
    db,               \* store.ts: `db`, NULL or a Database handle
    opened,           \* store.ts: how many Database handles were constructed
    speech_analysis,  \* analysis.db: the rows of table speech_analysis
    visual_analysis,  \* analysis.db: the rows of table visual_analysis
    analysis_status,  \* analysis.db: the rows of table analysis_status
    outcome,          \* the last store operation: its name, argument, the
                      \* error it threw and the value it returned
    calls,            \* the calls of transcribeVideo and analyzeVideoVisual:
                      \* arguments, locals and position of each
    now,              \* Date.now()
    dirs,             \* the temporary directories that exist
    generated,        \* how many ids generateAnalysisId has returned
    bridge,           \* PremiereBridge: ws, connected, pendingCommands (the
                      \* ids of its entries) and reconnectTimer
    sockets,          \* the WebSockets constructed so far: the state of each
                      \* and the ids of the commands sent on it
    reconnects,       \* event loop: the pending timeouts of scheduleReconnect
    timeouts,         \* event loop: the ids of the commands of which the
                      \* timeout of sendCommand is pending
    promises,         \* the promises of sendCommand, by command id
    handles,          \* how many timeouts scheduleReconnect has set
    disconnected      \* disconnect() was called and connect() was not called
                      \* by a client since

findVars == <<speechAnalysis, visualAnalysis, options, pc, segments, filtered,
              merged, results>>

mergeVars == <<mergeIn, mergeOut, mergeAgain, mpc>>

tables == <<speech_analysis, visual_analysis, analysis_status>>

storeVars == <<db, opened, tables, outcome>>

runVars == <<calls, now, dirs, generated>>

bridgeVars == <<bridge, sockets, reconnects, timeouts, promises, handles,
                disconnected>>

vars == <<findVars, mergeVars, storeVars, runVars, bridgeVars>>

\* `null`: a record unlike every analysis record.
NULL == [null |-> TRUE]

-----------------------------------------------------------------------------
\* Bounds of the model.

\* Largest tick of a start, an end or a timestamp of an analysis record.
MaxTime == 2

\* Largest number of candidates handed to mergeOverlappingSegments directly.
MaxCandidates == 3

\* Largest number of matchable items (segments + words + frames) of an input.
MaxItems == 2

\* maxResults ranges over 0..MaxResultsBound and the default.
MaxResultsBound == 1

\* Largest number of WebSockets that a PremiereBridge constructs.
MaxSockets == 3

\* Largest number of calls of sendCommand.
MaxCommands == 2

-----------------------------------------------------------------------------
\* Program constants.

DefaultMaxResults == 10
\* 1 second
DefaultMinDuration == 2
\* 0.5 second
DefaultExpandBy == 1
\* 1.0
SegmentConfidence == 100
\* 0.8
VisualConfidence == 80
DefaultContextSize == 1

-----------------------------------------------------------------------------
\* Numbers and strings.

Max(a, b) == IF a >= b THEN a ELSE b

Min(a, b) == IF a <= b THEN a ELSE b

\* String.prototype.toLowerCase on the model's alphabet, one character.
LowerChar(c) ==
    CASE c = "A" -> "a"
      [] c = "B" -> "b"
      [] OTHER -> c

\* String.prototype.toLowerCase.
ToLowerCase(s) == [i \in 1..Len(s) |-> LowerChar(s[i])]

\* String.prototype.includes: q occurs in s as a contiguous substring.
Includes(s, q) ==
    \E i \in 0..(Len(s) - Len(q)) : SubSeq(s, i + 1, i + Len(q)) = q

\* Array.prototype.join.
RECURSIVE Join(_, _)
Join(parts, sep) ==
    IF parts = <<>> THEN <<>>
    ELSE IF Len(parts) = 1 THEN parts[1]
    ELSE parts[1] \o sep \o Join(Tail(parts), sep)

\* Array.prototype.filter.
RECURSIVE SelectSeqBy(_, _)
SelectSeqBy(s, keep) ==
    IF s = <<>> THEN <<>>
    ELSE (IF keep[1] THEN <<s[1]>> ELSE <<>>)
         \o SelectSeqBy(Tail(s), Tail(keep))

\* Array.prototype.sort with a comparator that orders by an integer key,
\* ascending; key[i] is the key of s[i].  The sort is stable: elements with
\* equal keys keep their order.
StableSortBy(s, key) ==
    LET n == Len(s)
        Before(j, i) == \/ key[j] < key[i]
                        \/ key[j] = key[i] /\ j < i
        Pos(i) == Cardinality({j \in 1..n : Before(j, i)}) + 1
    IN  [p \in 1..n |-> s[CHOOSE i \in 1..n : Pos(i) = p]]

\* Array.prototype.slice(0, end) for an integer end.
Slice0(s, end) ==
    LET n == Len(s)
        k == IF end < 0 THEN Max(n + end, 0) ELSE Min(end, n)
    IN  SubSeq(s, 1, k)

-----------------------------------------------------------------------------
\* segment-finder.ts

\* Mutant: the segments after segmentId are left out.
getTranscriptContextBefore(segs, segmentId, contextSize) ==
    LET lo == Max(0, segmentId - contextSize)
        hi == Min(Len(segs) - 1, segmentId)
        contextParts == [k \in 1..Max(0, hi - lo + 1) |-> segs[lo + k].text]
    IN  Join(contextParts, <<" ">>)

\* The loop of getTranscriptContext; segmentId and i are 0-based indices.
getTranscriptContext(segs, segmentId, contextSize) ==
    LET lo == Max(0, segmentId - contextSize)
        hi == Min(Len(segs) - 1, segmentId + contextSize)
        contextParts == [k \in 1..Max(0, hi - lo + 1) |-> segs[lo + k].text]
    IN  Join(contextParts, <<" ">>)

\* Mutant: touching segments are not taken to overlap.
OverlapsStrictly(current, next) == next.start < current.end

\* The overlap test of the sweep.
Overlaps(current, next) == next.start <= current.end

\* Mutant: a mixed merge takes the type of the later candidate.
MergeIntoNextType(current, next) ==
    [start          |-> current.start,
     end            |-> Max(current.end, next.end),
     duration       |-> Max(current.end, next.end) - current.start,
     matchType      |-> next.matchType,
     matchedContent |-> current.matchedContent \o <<" ", "|", " ">>
                        \o next.matchedContent,
     confidence     |-> Max(current.confidence, next.confidence),
     context        |-> current.context]

\* Mutant: the merged end is the end of the later candidate.
MergeIntoNextEnd(current, next) ==
    [start          |-> current.start,
     end            |-> next.end,
     duration       |-> next.end - current.start,
     matchType      |-> IF current.matchType = next.matchType
                        THEN current.matchType ELSE "speech",
     matchedContent |-> current.matchedContent \o <<" ", "|", " ">>
                        \o next.matchedContent,
     confidence     |-> Max(current.confidence, next.confidence),
     context        |-> current.context]

\* Mutant: the duration of the earlier candidate is kept.
MergeIntoStaleDuration(current, next) ==
    [start          |-> current.start,
     end            |-> Max(current.end, next.end),
     duration       |-> current.duration,
     matchType      |-> IF current.matchType = next.matchType
                        THEN current.matchType ELSE "speech",
     matchedContent |-> current.matchedContent \o <<" ", "|", " ">>
                        \o next.matchedContent,
     confidence     |-> Max(current.confidence, next.confidence),
     context        |-> current.context]

\* The object built when next is merged into current.
MergeInto(current, next) ==
    [start          |-> current.start,
     end            |-> Max(current.end, next.end),
     duration       |-> Max(current.end, next.end) - current.start,
     matchType      |-> IF current.matchType = next.matchType
                        THEN current.matchType ELSE "speech",
     matchedContent |-> current.matchedContent \o <<" ", "|", " ">>
                        \o next.matchedContent,
     confidence     |-> Max(current.confidence, next.confidence),
     context        |-> current.context]

\* The keys of `.sort((a, b) => a.start - b.start)`.
ByStart(list) == [i \in 1..Len(list) |-> list[i].start]

\* Mutant: the push after the loop is missing.
RECURSIVE MergeSweepNoLastPush(_, _, _, _)
MergeSweepNoLastPush(sorted, i, current, acc) ==
    IF i > Len(sorted) THEN acc
    ELSE IF Overlaps(current, sorted[i])
         THEN MergeSweepNoLastPush(sorted, i + 1,
                                   MergeInto(current, sorted[i]), acc)
         ELSE MergeSweepNoLastPush(sorted, i + 1, sorted[i],
                                   Append(acc, current))

\* The for loop of mergeOverlappingSegments from index i on, and the push
\* that follows it.
RECURSIVE MergeSweep(_, _, _, _)
MergeSweep(sorted, i, current, acc) ==
    IF i > Len(sorted) THEN Append(acc, current)
    ELSE IF Overlaps(current, sorted[i])
         THEN MergeSweep(sorted, i + 1, MergeInto(current, sorted[i]), acc)
         ELSE MergeSweep(sorted, i + 1, sorted[i], Append(acc, current))

mergeOverlappingSegments(segs) ==
    IF Len(segs) <= 1 THEN segs
    ELSE LET sorted == StableSortBy(segs, ByStart(segs))
         IN  MergeSweep(sorted, 2, sorted[1], <<>>)

\* Case normalisation of a searched text: `caseSensitive ? t : t.toLowerCase()`.
Normalize(t, caseSensitive) == IF caseSensitive THEN t ELSE ToLowerCase(t)

\* `searchQuery`.
SearchQuery(opts) == Normalize(opts.query, opts.caseSensitive)

\* The test `text.includes(searchQuery)` on one searched text.
Matches(t, opts) == Includes(Normalize(t, opts.caseSensitive), SearchQuery(opts))

\* Mutant: a present speech record is searched whatever searchType asks for.
SearchesSpeechUnrequested(speech, opts) == speech # NULL

\* Whether a source is searched: its record is present and searchType asks
\* for it.
SearchesSpeech(speech, opts) ==
    speech # NULL /\ opts.searchType \in {"speech", "both"}

SearchesVisual(visual, opts) ==
    visual # NULL /\ opts.searchType \in {"visual", "both"}

\* Mutant: the start is not floored at 0.
SegmentCandidateNoFloor(speech, segment, opts) ==
    LET start == segment.start - opts.expandBy
        end   == segment.end + opts.expandBy
    IN  [start          |-> start,
         end            |-> end,
         duration       |-> end - start,
         matchType      |-> "speech",
         matchedContent |-> segment.text,
         confidence     |-> SegmentConfidence,
         context        |-> getTranscriptContext(speech.segments, segment.id,
                                                 DefaultContextSize)]

\* The candidate pushed for a matching transcript segment.
SegmentCandidate(speech, segment, opts) ==
    LET start == Max(0, segment.start - opts.expandBy)
        end   == segment.end + opts.expandBy
    IN  [start          |-> start,
         end            |-> end,
         duration       |-> end - start,
         matchType      |-> "speech",
         matchedContent |-> segment.text,
         confidence     |-> SegmentConfidence,
         context        |-> getTranscriptContext(speech.segments, segment.id,
                                                 DefaultContextSize)]

\* Mutant: no containing segment is looked for.
ContainingTextNone(speech, word) == <<>>

\* `speechAnalysis.segments.find(s => word.start >= s.start && word.end <= s.end)`
\* followed by `?.text || ""`.
ContainingText(speech, word) ==
    LET hits == {i \in 1..Len(speech.segments) :
                    /\ word.start >= speech.segments[i].start
                    /\ word.end <= speech.segments[i].end}
    IN  IF hits = {} THEN <<>>
        ELSE speech.segments[CHOOSE i \in hits : \A j \in hits : i <= j].text

\* The candidate pushed for a matching word.
WordCandidate(speech, word, opts) ==
    LET start == Max(0, word.start - opts.expandBy)
        end   == word.end + opts.expandBy
    IN  [start          |-> start,
         end            |-> end,
         duration       |-> end - start,
         matchType      |-> "speech",
         matchedContent |-> word.word,
         confidence     |-> word.confidence,
         context        |-> ContainingText(speech, word)]

\* `1 / visualAnalysis.fps` in ticks, for fps 1 and 2.
FrameInterval(fps) == 2 \div fps

\* Mutant: the objects of a frame are not searched.
FrameMatchesNoObjects(frame, opts) ==
    \/ Matches(frame.description, opts)
    \/ Matches(frame.scene, opts)

\* The three tests of a frame.
FrameMatches(frame, opts) ==
    \/ Matches(frame.description, opts)
    \/ \E k \in 1..Len(frame.objects) : Matches(frame.objects[k], opts)
    \/ Matches(frame.scene, opts)

\* The candidate pushed for a matching frame.
FrameCandidate(visual, frame, opts) ==
    LET start == Max(0, frame.timestamp - opts.expandBy)
        end   == frame.timestamp + FrameInterval(visual.fps) + opts.expandBy
    IN  [start          |-> start,
         end            |-> end,
         duration       |-> end - start,
         matchType      |-> "visual",
         matchedContent |-> frame.description,
         confidence     |-> VisualConfidence,
         context        |-> <<"S", "c", "e", "n", "e", ":", " ">> \o frame.scene
                            \o <<",", " ", "O", "b", "j", "e", "c", "t", "s",
                                 ":", " ">>
                            \o Join(frame.objects, <<",", " ">>)]

\* The candidates of the loop over speechAnalysis.segments.
SegmentCandidates(speech, opts) ==
    LET segs == speech.segments
    IN  SelectSeqBy([i \in 1..Len(segs) |-> SegmentCandidate(speech, segs[i], opts)],
                    [i \in 1..Len(segs) |-> Matches(segs[i].text, opts)])

\* The candidates of the loop over speechAnalysis.words.
WordCandidates(speech, opts) ==
    LET ws == speech.words
    IN  SelectSeqBy([i \in 1..Len(ws) |-> WordCandidate(speech, ws[i], opts)],
                    [i \in 1..Len(ws) |-> Matches(ws[i].word, opts)])

\* The candidates of the loop over visualAnalysis.frames.
FrameCandidates(visual, opts) ==
    LET fs == visual.frames
    IN  SelectSeqBy([i \in 1..Len(fs) |-> FrameCandidate(visual, fs[i], opts)],
                    [i \in 1..Len(fs) |-> FrameMatches(fs[i], opts)])

\* `segments` when the two searches are over.
Candidates(speech, visual, opts) ==
    (IF SearchesSpeech(speech, opts)
     THEN SegmentCandidates(speech, opts) \o WordCandidates(speech, opts)
     ELSE <<>>)
    \o (IF SearchesVisual(visual, opts)
        THEN FrameCandidates(visual, opts) ELSE <<>>)

\* The test of the duration filter.
LongEnough(s, opts) == s.duration >= opts.minDuration

\* Mutant: the filter runs on end instead of duration.
FilterByEnd(cands, opts) ==
    SelectSeqBy(cands, [i \in 1..Len(cands) |-> cands[i].end >= opts.minDuration])

\* `segments.filter((s) => s.duration >= minDuration)`.
FilterByDuration(cands, opts) ==
    SelectSeqBy(cands, [i \in 1..Len(cands) |-> LongEnough(cands[i], opts)])

\* The keys of `.sort((a, b) => b.confidence - a.confidence)`.
ByConfidenceDesc(list) == [i \in 1..Len(list) |-> 0 - list[i].confidence]

\* Mutant: the list is truncated without being sorted.
RankUnsorted(list, opts) == Slice0(list, opts.maxResults)

\* `.sort(...).slice(0, maxResults)`.
Rank(list, opts) ==
    Slice0(StableSortBy(list, ByConfidenceDesc(list)), opts.maxResults)

-----------------------------------------------------------------------------
\* The inputs of the model.

Times == 0..MaxTime

Letters == <<"p", "q", "r", "s", "t", "u", "v", "w">>

\* The type and confidence of a candidate handed to mergeOverlappingSegments
\* directly: those of a segment match (1.0) and of a frame match (0.8).  The
\* other confidences, of word matches, come with the inputs of findSegments.
CandidateKinds ==
    {<<"speech", SegmentConfidence>>, <<"visual", VisualConfidence>>}

\* A candidate of a list handed to mergeOverlappingSegments, at index i.
MkCandidate(i, range, kind) ==
    [start          |-> range[1],
     end            |-> range[2],
     duration       |-> range[2] - range[1],
     matchType      |-> kind[1],
     matchedContent |-> <<Letters[i]>>,
     confidence     |-> kind[2],
     context        |-> <<"c", Letters[i]>>]

\* Intervals with end >= start.
Ranges == {r \in Times \X Times : r[1] <= r[2]}

\* Transcript segments as whisper.ts builds them: id is the index.
MkSegments(items) ==
    [i \in 1..Len(items) |->
        [id |-> i - 1, start |-> items[i][1][1], end |-> items[i][1][2],
         text |-> items[i][2]]]

MkWords(items) ==
    [i \in 1..Len(items) |->
        [word |-> items[i][2], start |-> items[i][1][1], end |-> items[i][1][2],
         confidence |-> items[i][3]]]

MkFrames(items) ==
    [i \in 1..Len(items) |->
        [timestamp |-> items[i][1], description |-> items[i][2][1],
         objects |-> items[i][2][2], scene |-> items[i][2][3]]]

MkSpeech(segItems, wordItems) ==
    [segments |-> MkSegments(segItems), words |-> MkWords(wordItems)]

MkVisual(fps, frameItems) == [fps |-> fps, frames |-> MkFrames(frameItems)]

MkOptions(q, st, mr, md, eb, cs) ==
    [query |-> q, searchType |-> st, maxResults |-> mr, minDuration |-> md,
     expandBy |-> eb, caseSensitive |-> cs]

SearchTypes == {"speech", "visual", "both"}

FpsValues == {1, 2}

\* Texts: "a" never contains the queries "b" and "B"; "aB" contains "B", and
\* contains "b" once lowered.
TextA == <<"a">>

TextAB == <<"a", "B">>

Texts == {TextA, TextAB}

Queries == {<<"b">>, <<"B">>}

\* description, objects, scene of a frame.
FrameTexts ==
    {<<d, o, sc>> : d \in Texts, o \in {<<>>, <<TextA>>, <<TextA, TextAB>>},
                    sc \in Texts}

-----------------------------------------------------------------------------
\* findSegments.

MergeIdle ==
    /\ mergeIn = <<>>
    /\ mergeOut = <<>>
    /\ mergeAgain = <<>>
    /\ mpc = "idle"

\* The store before initializeCache, with an empty database file.
StoreIdle ==
    /\ db = NULL
    /\ opened = 0
    /\ speech_analysis = {}
    /\ visual_analysis = {}
    /\ analysis_status = {}
    /\ outcome = NULL

\* No call of an orchestrator.
RunIdle ==
    /\ calls = <<>>
    /\ now = 0
    /\ dirs = {}
    /\ generated = 0

\* The ids of the commands: sendCommand is called with a fresh uuid.
CommandIds == 1..MaxCommands

\* A PremiereBridge after its construction (null is <<>>), and no call of
\* sendCommand.
BridgeIdle ==
    /\ bridge = [ws |-> <<>>, connected |-> FALSE, pendingCommands |-> {},
                 reconnectTimer |-> <<>>]
    /\ sockets = <<>>
    /\ reconnects = {}
    /\ timeouts = {}
    /\ promises = [id \in CommandIds |->
                      [called |-> FALSE, registered |-> FALSE, settles |-> <<>>]]
    /\ handles = 0
    /\ disconnected = FALSE

FindStart ==
    /\ pc = "call"
    /\ segments = <<>>
    /\ filtered = <<>>
    /\ merged = <<>>
    /\ results = <<>>
    /\ MergeIdle
    /\ StoreIdle
    /\ RunIdle
    /\ BridgeIdle

\* How many segments, words and frames an input of TimingInit has.
ItemCounts ==
    {n \in (0..MaxItems) \X (0..MaxItems) \X (0..MaxItems) :
        n[1] + n[2] + n[3] <= MaxItems}

\* Inputs that vary the times: every item matches the query; up to MaxItems
\* segments, words (of confidence 0.9) and frames anywhere in 0..MaxTime.
TimingInit ==
    \E n \in ItemCounts, noSpeech \in BOOLEAN, noVisual \in BOOLEAN :
    \E ss \in [1..n[1] -> Ranges], ws \in [1..n[2] -> Ranges],
       fs \in [1..n[3] -> Times], fps \in FpsValues :
    \E mr \in (0..MaxResultsBound) \cup {DefaultMaxResults},
       md \in {0, DefaultMinDuration}, eb \in {0, DefaultExpandBy},
       st \in SearchTypes :
        /\ noSpeech => n[1] + n[2] = 0
        /\ noVisual => n[3] = 0 /\ fps = 1
        /\ speechAnalysis =
              IF noSpeech THEN NULL
              ELSE MkSpeech([i \in 1..n[1] |-> <<ss[i], TextAB>>],
                            [i \in 1..n[2] |-> <<ws[i], TextAB, 90>>])
        /\ visualAnalysis =
              IF noVisual THEN NULL
              ELSE MkVisual(fps, [i \in 1..n[3] |->
                                     <<fs[i], <<TextAB, <<>>, TextA>>>>])
        /\ options = MkOptions(<<"b">>, st, mr, md, eb, FALSE)

\* Inputs that vary the texts: at most two segments, one word (of confidence
\* 0.6) and one frame at fixed times, every text, query, case mode and search
\* type.
TextInit ==
    /\ speechAnalysis \in
          {NULL} \cup
          {MkSpeech(ss, ws) :
              ss \in {<<>>} \cup {<<<< <<0, 2>>, t >>>> : t \in Texts}
                    \cup {<<<< <<0, 2>>, t >>, << <<2, 3>>, u >>>> :
                             t \in Texts, u \in Texts},
              ws \in {<<>>} \cup {<<<< <<1, 1>>, t, 60 >>>> : t \in Texts}}
    /\ visualAnalysis \in
          {NULL} \cup
          {MkVisual(1, fs) :
              fs \in {<<>>} \cup {<<<<1, ft>>>> : ft \in FrameTexts}}
    /\ options \in
          {MkOptions(q, st, DefaultMaxResults, DefaultMinDuration,
                     DefaultExpandBy, cs) :
              q \in Queries, st \in SearchTypes, cs \in BOOLEAN}

\* Inputs that vary the neighbours: three segments of one tick each, every
\* text, query and case mode, no words and no frames.
ContextInit ==
    /\ speechAnalysis \in
          {MkSpeech(<<<< <<0, 0>>, t >>, << <<1, 1>>, u >>, << <<2, 2>>, v >>>>,
                    <<>>) : t \in Texts, u \in Texts, v \in Texts}
    /\ visualAnalysis = NULL
    /\ options \in
          {MkOptions(q, "speech", DefaultMaxResults, md, eb, cs) :
              q \in Queries, md \in {0, DefaultMinDuration},
              eb \in {0, DefaultExpandBy}, cs \in BOOLEAN}

\* The scenarios of the specification, in ticks: a segment [0 s, 5 s] with
\* expandBy 0.5 s; a frame at 10 s with fps 1 and expandBy 0.5 s; a word of
\* half a second with minDuration 2 s.
ScenarioInputs ==
    {[speech |-> MkSpeech(<<<< <<0, 10>>, TextAB >>>>, <<>>), visual |-> NULL,
      opts |-> MkOptions(<<"b">>, "speech", DefaultMaxResults,
                         DefaultMinDuration, DefaultExpandBy, FALSE)],
     [speech |-> NULL, visual |-> MkVisual(1, <<<<20, <<TextAB, <<>>, TextA>>>>>>),
      opts |-> MkOptions(<<"b">>, "visual", DefaultMaxResults,
                         DefaultMinDuration, DefaultExpandBy, FALSE)],
     [speech |-> MkSpeech(<<>>, <<<< <<2, 3>>, TextAB, 90 >>>>), visual |-> NULL,
      opts |-> MkOptions(<<"b">>, "both", DefaultMaxResults, 4, 0, FALSE)]}

ScenarioInit ==
    \E in \in ScenarioInputs :
        /\ speechAnalysis = in.speech
        /\ visualAnalysis = in.visual
        /\ options = in.opts

Init == (TimingInit \/ TextInit \/ ContextInit \/ ScenarioInit) /\ FindStart

\* A call findSegments(speechAnalysis, visualAnalysis, options): the two
\* searches, the duration filter, the merge, the ranking and the truncation.
FindSegments ==
    /\ pc = "call"
    /\ LET cands == Candidates(speechAnalysis, visualAnalysis, options)
           kept  == FilterByDuration(cands, options)
           mrg   == mergeOverlappingSegments(kept)
       IN  /\ segments' = cands
           /\ filtered' = kept
           /\ merged' = mrg
           /\ results' = Rank(mrg, options)
    /\ pc' = "done"
    /\ UNCHANGED <<speechAnalysis, visualAnalysis, options, mergeVars, storeVars,
                 runVars, bridgeVars>>

Next == FindSegments

Spec == Init /\ [][Next]_vars

-----------------------------------------------------------------------------
\* mergeOverlappingSegments as a function of an arbitrary candidate list.

\* The scenario of the specification, in ticks: [2 s, 6 s] and [5 s, 9 s].
ScenarioCandidates ==
    <<MkCandidate(1, <<4, 12>>, <<"speech", SegmentConfidence>>),
      MkCandidate(2, <<10, 18>>, <<"speech", SegmentConfidence>>)>>

FindIdle ==
    /\ speechAnalysis = NULL
    /\ visualAnalysis = NULL
    /\ options = NULL
    /\ pc = "idle"
    /\ segments = <<>>
    /\ filtered = <<>>
    /\ merged = <<>>
    /\ results = <<>>

MergeInit ==
    /\ FindIdle
    /\ StoreIdle
    /\ RunIdle
    /\ BridgeIdle
    /\ \/ \E n \in 0..MaxCandidates :
          \E rs \in [1..n -> Ranges], ks \in [1..n -> CandidateKinds] :
             mergeIn = [i \in 1..n |-> MkCandidate(i, rs[i], ks[i])]
       \/ mergeIn = ScenarioCandidates
    /\ mergeOut = <<>>
    /\ mergeAgain = <<>>
    /\ mpc = "in"

\* A call mergeOverlappingSegments(mergeIn).
Merge ==
    /\ mpc = "in"
    /\ mergeOut' = mergeOverlappingSegments(mergeIn)
    /\ mpc' = "once"
    /\ UNCHANGED <<mergeIn, mergeAgain, findVars, storeVars, runVars, bridgeVars>>

\* A call of mergeOverlappingSegments on the list the first call returned.
Remerge ==
    /\ mpc = "once"
    /\ mergeAgain' = mergeOverlappingSegments(mergeOut)
    /\ mpc' = "twice"
    /\ UNCHANGED <<mergeIn, mergeOut, findVars, storeVars, runVars, bridgeVars>>

MergeNext == Merge \/ Remerge

MergeSpec == MergeInit /\ [][MergeNext]_vars

-----------------------------------------------------------------------------
\* JSON.stringify and JSON.parse, on the values the store hands them: arrays
\* of objects whose members are non-negative integers, strings and arrays of
\* strings.  A JSON value is a tagged record.

JNum(n) == [t |-> "number", v |-> n]

JStr(s) == [t |-> "string", v |-> s]

JArr(xs) == [t |-> "array", v |-> xs]

\* An object: its keys in insertion order and their values.
JObj(ks, vs) == [t |-> "object", k |-> ks, v |-> vs]

Digits == <<"0", "1", "2", "3", "4", "5", "6", "7", "8", "9">>

DigitSet == {Digits[i] : i \in 1..10}

DigitValue(c) == (CHOOSE i \in 1..10 : Digits[i] = c) - 1

\* The decimal digits of a non-negative integer.
RECURSIVE NumberToString(_)
NumberToString(n) ==
    IF n < 10 THEN <<Digits[n + 1]>>
    ELSE NumberToString(n \div 10) \o <<Digits[(n % 10) + 1]>>

\* Mutant: quotes and backslashes are written as they are.
EscapeNothing(s) == s

\* The characters of a string as JSON.stringify writes them between the
\* quotes: a quote and a backslash get a backslash in front.
RECURSIVE Escape(_)
Escape(s) ==
    IF s = <<>> THEN <<>>
    ELSE (IF Head(s) \in {"\"", "\\"} THEN <<"\\", Head(s)>> ELSE <<Head(s)>>)
         \o Escape(Tail(s))

Quote(s) == <<"\"">> \o Escape(s) \o <<"\"">>

RECURSIVE JSONStringify(_)
JSONStringify(j) ==
    CASE j.t = "number" -> NumberToString(j.v)
      [] j.t = "string" -> Quote(j.v)
      [] j.t = "array" ->
            <<"[">>
            \o Join([i \in 1..Len(j.v) |-> JSONStringify(j.v[i])], <<",">>)
            \o <<"]">>
      [] j.t = "object" ->
            <<"{">>
            \o Join([i \in 1..Len(j.k) |->
                        Quote(j.k[i]) \o <<":">> \o JSONStringify(j.v[i])],
                    <<",">>)
            \o <<"}">>

\* The result of a parse that throws SyntaxError.
SyntaxError == [ok |-> FALSE]

Parsed(val, pos) == [ok |-> TRUE, val |-> val, pos |-> pos]

\* The character of s at position p, "" past the end.
At(s, p) == IF p <= Len(s) THEN s[p] ELSE ""

RECURSIVE ParseDigits(_, _, _)
ParseDigits(s, p, acc) ==
    IF At(s, p) \in DigitSet
    THEN ParseDigits(s, p + 1, acc * 10 + DigitValue(At(s, p)))
    ELSE Parsed(JNum(acc), p)

\* The characters of a string from position p, after the opening quote.
RECURSIVE ParseChars(_, _, _)
ParseChars(s, p, acc) ==
    LET c == At(s, p)
    IN  IF c = "" THEN SyntaxError
        ELSE IF c = "\"" THEN Parsed(JStr(acc), p + 1)
        ELSE IF c = "\\"
             THEN IF At(s, p + 1) \in {"\"", "\\"}
                  THEN ParseChars(s, p + 2, Append(acc, At(s, p + 1)))
                  ELSE SyntaxError
        ELSE ParseChars(s, p + 1, Append(acc, c))

RECURSIVE ParseValue(_, _)
RECURSIVE ParseElements(_, _, _)
RECURSIVE ParseMembers(_, _, _, _)

ParseValue(s, p) ==
    LET c == At(s, p)
    IN  IF c \in DigitSet THEN ParseDigits(s, p, 0)
        ELSE IF c = "\"" THEN ParseChars(s, p + 1, <<>>)
        ELSE IF c = "["
             THEN IF At(s, p + 1) = "]" THEN Parsed(JArr(<<>>), p + 2)
                  ELSE ParseElements(s, p + 1, <<>>)
        ELSE IF c = "{"
             THEN IF At(s, p + 1) = "}" THEN Parsed(JObj(<<>>, <<>>), p + 2)
                  ELSE ParseMembers(s, p + 1, <<>>, <<>>)
        ELSE SyntaxError

\* The elements of an array from position p on, acc being those read so far.
ParseElements(s, p, acc) ==
    LET r == ParseValue(s, p)
    IN  IF ~r.ok THEN SyntaxError
        ELSE IF At(s, r.pos) = ","
             THEN ParseElements(s, r.pos + 1, Append(acc, r.val))
        ELSE IF At(s, r.pos) = "]"
             THEN Parsed(JArr(Append(acc, r.val)), r.pos + 1)
        ELSE SyntaxError

\* The members of an object from position p on.
ParseMembers(s, p, ks, vs) ==
    IF At(s, p) # "\"" THEN SyntaxError
    ELSE LET key == ParseChars(s, p + 1, <<>>)
         IN  IF ~key.ok THEN SyntaxError
             ELSE IF At(s, key.pos) # ":" THEN SyntaxError
             ELSE LET r == ParseValue(s, key.pos + 1)
                  IN  IF ~r.ok THEN SyntaxError
                      ELSE IF At(s, r.pos) = ","
                           THEN ParseMembers(s, r.pos + 1,
                                             Append(ks, key.val.v),
                                             Append(vs, r.val))
                      ELSE IF At(s, r.pos) = "}"
                           THEN Parsed(JObj(Append(ks, key.val.v),
                                            Append(vs, r.val)), r.pos + 1)
                      ELSE SyntaxError

\* JSON.parse: the whole text is one value.
JSONParse(s) ==
    LET r == ParseValue(s, 1)
    IN  IF r.ok /\ r.pos = Len(s) + 1 THEN r ELSE SyntaxError

\* The keys of the stored objects.
KeyId == <<"i", "d">>

KeyStart == <<"s", "t", "a", "r", "t">>

KeyEnd == <<"e", "n", "d">>

KeyText == <<"t", "e", "x", "t">>

KeyWord == <<"w", "o", "r", "d">>

KeyConfidence == <<"c", "o", "n", "f", "i", "d", "e", "n", "c", "e">>

KeyTimestamp == <<"t", "i", "m", "e", "s", "t", "a", "m", "p">>

KeyFramePath == <<"f", "r", "a", "m", "e", "P", "a", "t", "h">>

KeyDescription == <<"d", "e", "s", "c", "r", "i", "p", "t", "i", "o", "n">>

KeyObjects == <<"o", "b", "j", "e", "c", "t", "s">>

KeyScene == <<"s", "c", "e", "n", "e">>

\* The value of member key of a parsed object.
Member(j, key) == j.v[CHOOSE i \in 1..Len(j.k) : j.k[i] = key]

\* TranscriptSegment[], WordTimestamp[] and FrameAnalysis[] as JSON values.
SegmentsToJson(segs) ==
    JArr([i \in 1..Len(segs) |->
            JObj(<<KeyId, KeyStart, KeyEnd, KeyText>>,
                 <<JNum(segs[i].id), JNum(segs[i].start), JNum(segs[i].end),
                   JStr(segs[i].text)>>)])

WordsToJson(ws) ==
    JArr([i \in 1..Len(ws) |->
            JObj(<<KeyWord, KeyStart, KeyEnd, KeyConfidence>>,
                 <<JStr(ws[i].word), JNum(ws[i].start), JNum(ws[i].end),
                   JNum(ws[i].confidence)>>)])

FramesToJson(fs) ==
    JArr([i \in 1..Len(fs) |->
            JObj(<<KeyTimestamp, KeyFramePath, KeyDescription, KeyObjects,
                   KeyScene>>,
                 <<JNum(fs[i].timestamp), JStr(fs[i].framePath),
                   JStr(fs[i].description),
                   JArr([k \in 1..Len(fs[i].objects) |->
                            JStr(fs[i].objects[k])]),
                   JStr(fs[i].scene)>>)])

\* The arrays that JSON.parse gives back, as the records of the model.
JsonToSegments(j) ==
    [i \in 1..Len(j.v) |->
        [id    |-> Member(j.v[i], KeyId).v,
         start |-> Member(j.v[i], KeyStart).v,
         end   |-> Member(j.v[i], KeyEnd).v,
         text  |-> Member(j.v[i], KeyText).v]]

JsonToWords(j) ==
    [i \in 1..Len(j.v) |->
        [word       |-> Member(j.v[i], KeyWord).v,
         start      |-> Member(j.v[i], KeyStart).v,
         end        |-> Member(j.v[i], KeyEnd).v,
         confidence |-> Member(j.v[i], KeyConfidence).v]]

JsonToFrames(j) ==
    [i \in 1..Len(j.v) |->
        [timestamp   |-> Member(j.v[i], KeyTimestamp).v,
         framePath   |-> Member(j.v[i], KeyFramePath).v,
         description |-> Member(j.v[i], KeyDescription).v,
         objects     |-> LET os == Member(j.v[i], KeyObjects).v
                         IN  [k \in 1..Len(os) |-> os[k].v],
         scene       |-> Member(j.v[i], KeyScene).v]]

-----------------------------------------------------------------------------
\* store.ts

\* Bounds of the store model.

\* createdAt and startedAt of the records handed to the store: 1..MaxStamp.
MaxStamp == 2

\* How many times initializeCache constructs a Database handle.
MaxOpens == 2

\* The absent optional value and a present one.
None == <<>>

Some(x) == <<x>>

\* `x || null` and `x || undefined` on an optional string and on an optional
\* number: the empty string and 0 are falsy.
StringOrNull(x) == IF Len(x) = 0 THEN None ELSE IF x[1] = "" THEN None ELSE x

NumberOrNull(x) == IF Len(x) = 0 THEN None ELSE IF x[1] = 0 THEN None ELSE x

\* What a store operation leaves in `outcome`.
Returned(op, arg, value) ==
    [op |-> op, arg |-> arg, error |-> None, value |-> value]

Threw(op, arg, message) ==
    [op |-> op, arg |-> arg, error |-> Some(message), value |-> NULL]

NotInitialized == "Cache not initialized"

\* INSERT OR REPLACE of a row into a table whose primary key is analysis_id.
InsertOrReplace(table, row) ==
    {r \in table : r.analysis_id # row.analysis_id} \cup {row}

\* `WHERE video_path = ?`.
WhereVideoPath(table, videoPath) == {r \in table : r.video_path = videoPath}

\* Mutant: the oldest row comes first.
OrderByCreatedAtAscLimit1(rows) ==
    {r \in rows : \A q \in rows : q.created_at >= r.created_at}

\* `ORDER BY created_at DESC LIMIT 1`: the rows that may come first.  SQL
\* leaves the order of rows with equal created_at open.
OrderByCreatedAtDescLimit1(rows) ==
    {r \in rows : \A q \in rows : q.created_at <= r.created_at}

\* initializeCache.  CREATE TABLE IF NOT EXISTS and CREATE INDEX IF NOT
\* EXISTS leave the rows of an existing database file as they are.
InitializeCache ==
    /\ IF db # NULL THEN UNCHANGED <<db, opened>>
       ELSE /\ opened < MaxOpens
            /\ opened' = opened + 1
            /\ db' = [handle |-> opened + 1]
    /\ outcome' = Returned("initializeCache", NULL, NULL)
    /\ UNCHANGED <<tables, findVars, mergeVars, runVars, bridgeVars>>

\* closeCache.
CloseCache ==
    /\ db' = NULL
    /\ outcome' = Returned("closeCache", NULL, NULL)
    /\ UNCHANGED <<opened, tables, findVars, mergeVars, runVars, bridgeVars>>

\* The SpeechAnalysisResult that getSpeechAnalysis builds from a row, or
\* SyntaxError when a JSON.parse throws.
SpeechResultOfRow(row) ==
    LET segs == JSONParse(row.segments)
        ws   == JSONParse(row.words)
    IN  IF ~segs.ok \/ ~ws.ok THEN SyntaxError
        ELSE [ok  |-> TRUE,
              val |-> [analysisId |-> row.analysis_id,
                       videoPath  |-> row.video_path,
                       duration   |-> row.duration,
                       language   |-> row.language,
                       segments   |-> JsonToSegments(segs.val),
                       words      |-> JsonToWords(ws.val),
                       createdAt  |-> row.created_at]]

\* getSpeechAnalysis(videoPath).
GetSpeechAnalysis(videoPath) ==
    LET op   == "getSpeechAnalysis"
        arg  == [videoPath |-> videoPath]
        rows == WhereVideoPath(speech_analysis, videoPath)
    IN  /\ IF db = NULL THEN outcome' = Threw(op, arg, NotInitialized)
           ELSE IF rows = {} THEN outcome' = Returned(op, arg, NULL)
           ELSE \E row \in OrderByCreatedAtDescLimit1(rows) :
                   LET res == SpeechResultOfRow(row)
                   IN  outcome' = IF res.ok THEN Returned(op, arg, res.val)
                                  ELSE Threw(op, arg, "SyntaxError")
        /\ UNCHANGED <<db, opened, tables, findVars, mergeVars, runVars, bridgeVars>>

\* Mutant: the row is keyed by the path of the video.
SpeechRowKeyedByPath(result) ==
    [analysis_id |-> result.videoPath,
     video_path  |-> result.videoPath,
     duration    |-> result.duration,
     language    |-> result.language,
     segments    |-> JSONStringify(SegmentsToJson(result.segments)),
     words       |-> JSONStringify(WordsToJson(result.words)),
     created_at  |-> result.createdAt]

\* The row that saveSpeechAnalysis writes.
SpeechRow(result) ==
    [analysis_id |-> result.analysisId,
     video_path  |-> result.videoPath,
     duration    |-> result.duration,
     language    |-> result.language,
     segments    |-> JSONStringify(SegmentsToJson(result.segments)),
     words       |-> JSONStringify(WordsToJson(result.words)),
     created_at  |-> result.createdAt]

\* Mutant: the row is written without a look at the handle.
SaveSpeechAnalysisUnguarded(result) ==
    /\ speech_analysis' = InsertOrReplace(speech_analysis, SpeechRow(result))
    /\ outcome' = Returned("saveSpeechAnalysis", result, NULL)
    /\ UNCHANGED <<visual_analysis, analysis_status>>
    /\ UNCHANGED <<db, opened, findVars, mergeVars, runVars, bridgeVars>>

\* saveSpeechAnalysis(result).
SaveSpeechAnalysis(result) ==
    LET op == "saveSpeechAnalysis"
    IN  /\ IF db = NULL
           THEN /\ outcome' = Threw(op, result, NotInitialized)
                /\ UNCHANGED tables
           ELSE /\ speech_analysis' =
                      InsertOrReplace(speech_analysis, SpeechRow(result))
                /\ outcome' = Returned(op, result, NULL)
                /\ UNCHANGED <<visual_analysis, analysis_status>>
        /\ UNCHANGED <<db, opened, findVars, mergeVars, runVars, bridgeVars>>

\* The VisualAnalysisResult that getVisualAnalysis builds from a row.
VisualResultOfRow(row) ==
    LET fs == JSONParse(row.frames)
    IN  IF ~fs.ok THEN SyntaxError
        ELSE [ok  |-> TRUE,
              val |-> [analysisId     |-> row.analysis_id,
                       videoPath      |-> row.video_path,
                       duration       |-> row.duration,
                       fps            |-> row.fps,
                       framesAnalyzed |-> row.frames_analyzed,
                       frames         |-> JsonToFrames(fs.val),
                       createdAt      |-> row.created_at]]

\* getVisualAnalysis(videoPath).
GetVisualAnalysis(videoPath) ==
    LET op   == "getVisualAnalysis"
        arg  == [videoPath |-> videoPath]
        rows == WhereVideoPath(visual_analysis, videoPath)
    IN  /\ IF db = NULL THEN outcome' = Threw(op, arg, NotInitialized)
           ELSE IF rows = {} THEN outcome' = Returned(op, arg, NULL)
           ELSE \E row \in OrderByCreatedAtDescLimit1(rows) :
                   LET res == VisualResultOfRow(row)
                   IN  outcome' = IF res.ok THEN Returned(op, arg, res.val)
                                  ELSE Threw(op, arg, "SyntaxError")
        /\ UNCHANGED <<db, opened, tables, findVars, mergeVars, runVars, bridgeVars>>

\* The row that saveVisualAnalysis writes.
VisualRow(result) ==
    [analysis_id     |-> result.analysisId,
     video_path      |-> result.videoPath,
     duration        |-> result.duration,
     fps             |-> result.fps,
     frames_analyzed |-> result.framesAnalyzed,
     frames          |-> JSONStringify(FramesToJson(result.frames)),
     created_at      |-> result.createdAt]

\* saveVisualAnalysis(result).
SaveVisualAnalysis(result) ==
    LET op == "saveVisualAnalysis"
    IN  /\ IF db = NULL
           THEN /\ outcome' = Threw(op, result, NotInitialized)
                /\ UNCHANGED tables
           ELSE /\ visual_analysis' =
                      InsertOrReplace(visual_analysis, VisualRow(result))
                /\ outcome' = Returned(op, result, NULL)
                /\ UNCHANGED <<speech_analysis, analysis_status>>
        /\ UNCHANGED <<db, opened, findVars, mergeVars, runVars, bridgeVars>>

\* The AnalysisStatus that getAnalysisStatus and getAnalysisStatusByVideo
\* build from a row.
StatusOfRow(row) ==
    [analysisId  |-> row.analysis_id,
     videoPath   |-> row.video_path,
     type        |-> row.type,
     status      |-> row.status,
     progress    |-> row.progress,
     error       |-> StringOrNull(row.error),
     startedAt   |-> row.started_at,
     completedAt |-> NumberOrNull(row.completed_at)]

\* getAnalysisStatus(analysisId).
GetAnalysisStatus(analysisId) ==
    LET op   == "getAnalysisStatus"
        arg  == [analysisId |-> analysisId]
        rows == {r \in analysis_status : r.analysis_id = analysisId}
    IN  /\ IF db = NULL THEN outcome' = Threw(op, arg, NotInitialized)
           ELSE IF rows = {} THEN outcome' = Returned(op, arg, NULL)
           ELSE \E row \in rows : outcome' = Returned(op, arg, StatusOfRow(row))
        /\ UNCHANGED <<db, opened, tables, findVars, mergeVars, runVars, bridgeVars>>

\* `ORDER BY started_at DESC`: the orders in which the rows may come.
OrderByStartedAtDesc(rows) ==
    {order \in [1..Cardinality(rows) -> rows] :
        /\ \A i, j \in 1..Cardinality(rows) : i # j => order[i] # order[j]
        /\ \A i \in 1..(Cardinality(rows) - 1) :
              order[i].started_at >= order[i + 1].started_at}

\* getAnalysisStatusByVideo(videoPath).
GetAnalysisStatusByVideo(videoPath) ==
    LET op   == "getAnalysisStatusByVideo"
        arg  == [videoPath |-> videoPath]
        rows == WhereVideoPath(analysis_status, videoPath)
    IN  /\ IF db = NULL THEN outcome' = Threw(op, arg, NotInitialized)
           ELSE \E order \in OrderByStartedAtDesc(rows) :
                   outcome' =
                      Returned(op, arg,
                               [list |-> [i \in 1..Len(order) |->
                                             StatusOfRow(order[i])]])
        /\ UNCHANGED <<db, opened, tables, findVars, mergeVars, runVars, bridgeVars>>

\* The row that updateAnalysisStatus writes.
StatusRow(status) ==
    [analysis_id  |-> status.analysisId,
     video_path   |-> status.videoPath,
     type         |-> status.type,
     status       |-> status.status,
     progress     |-> status.progress,
     error        |-> StringOrNull(status.error),
     started_at   |-> status.startedAt,
     completed_at |-> NumberOrNull(status.completedAt)]

\* updateAnalysisStatus(status).
UpdateAnalysisStatus(status) ==
    LET op == "updateAnalysisStatus"
    IN  /\ IF db = NULL
           THEN /\ outcome' = Threw(op, status, NotInitialized)
                /\ UNCHANGED tables
           ELSE /\ analysis_status' =
                      InsertOrReplace(analysis_status, StatusRow(status))
                /\ outcome' = Returned(op, status, NULL)
                /\ UNCHANGED <<speech_analysis, visual_analysis>>
        /\ UNCHANGED <<db, opened, findVars, mergeVars, runVars, bridgeVars>>

\* The arguments of the store operations.

AnalysisIds == {"id1", "id2"}

VideoPaths == {"a.mp4", "b.mp4"}

Stamps == 1..MaxStamp

\* A text with a quote and a backslash in it.
TextQuoted == <<"a", "\"", "\\">>

\* One segment [0 s, 6 s] with the quoted text, created first; two segments
\* and one word, created last.
Payloads ==
    {[segments  |-> MkSegments(<<<< <<0, 12>>, TextQuoted >>>>),
      words     |-> <<>>,
      createdAt |-> 1],
     [segments  |-> MkSegments(<<<< <<0, 2>>, TextA >>, << <<2, 3>>, TextAB >>>>),
      words     |-> MkWords(<<<< <<1, 1>>, TextQuoted, 90 >>>>),
      createdAt |-> MaxStamp]}

\* Records that differ in id, path and time of creation, with no segments and
\* no words, and records that differ in their segments and words.
SpeechResults ==
    {[analysisId |-> id, videoPath |-> p, duration |-> 20, language |-> "auto",
      segments |-> <<>>, words |-> <<>>, createdAt |-> t] :
        id \in AnalysisIds, p \in VideoPaths, t \in Stamps}
    \cup
    {[analysisId |-> "id1", videoPath |-> "a.mp4", duration |-> 20,
      language |-> "en", segments |-> pl.segments, words |-> pl.words,
      createdAt |-> pl.createdAt] : pl \in Payloads}

\* One analysed frame, with a quoted description and two objects.
StoredFrames ==
    <<[timestamp |-> 0, framePath |-> <<"/", "t", "/", "1">>,
       description |-> TextQuoted, objects |-> <<TextA, TextAB>>,
       scene |-> TextA]>>

VisualResults ==
    {[analysisId |-> id, videoPath |-> p, duration |-> 20, fps |-> 1,
      framesAnalyzed |-> 1, frames |-> StoredFrames, createdAt |-> t] :
        id \in {"id1", "id2"}, p \in VideoPaths, t \in Stamps}

\* A status in progress, a failed one, and a failed one whose message is the
\* empty string.
Statuses ==
    {[analysisId |-> id, videoPath |-> "a.mp4", type |-> "speech",
      status |-> st[1], progress |-> st[2], error |-> st[3], startedAt |-> 1,
      completedAt |-> st[4]] :
        id \in {"id1", "id2"},
        st \in {<<"processing", 10, None, None>>,
                <<"failed", 0, Some("boom"), Some(2)>>,
                <<"failed", 0, Some(""), Some(2)>>}}

\* The records of a running process: the store is initialized once and then
\* saves and looks up speech and visual records in any order.
StoreInit == FindIdle /\ MergeIdle /\ StoreIdle /\ RunIdle /\ BridgeIdle

StoreNext ==
    \/ InitializeCache
    \/ \E result \in SpeechResults : SaveSpeechAnalysis(result)
    \/ \E videoPath \in VideoPaths : GetSpeechAnalysis(videoPath)
    \/ \E result \in VisualResults : SaveVisualAnalysis(result)
    \/ \E videoPath \in VideoPaths : GetVisualAnalysis(videoPath)

StoreSpec == StoreInit /\ [][StoreNext]_vars

\* The life of the store: initializeCache and closeCache in any order, and
\* every operation in every state of the handle, on a few records.
LifecycleSpeechResults ==
    {r \in SpeechResults :
        r.analysisId = "id1" /\ r.videoPath = "a.mp4" /\ r.createdAt = 1}

LifecycleVisualResults ==
    {r \in VisualResults :
        r.analysisId = "id2" /\ r.videoPath = "a.mp4" /\ r.createdAt = 1}

LifecycleInit == FindIdle /\ MergeIdle /\ StoreIdle /\ RunIdle /\ BridgeIdle

LifecycleNext ==
    \/ InitializeCache
    \/ CloseCache
    \/ \E result \in LifecycleSpeechResults : SaveSpeechAnalysis(result)
    \/ \E videoPath \in VideoPaths : GetSpeechAnalysis(videoPath)
    \/ \E result \in LifecycleVisualResults : SaveVisualAnalysis(result)
    \/ \E videoPath \in VideoPaths : GetVisualAnalysis(videoPath)
    \/ \E status \in Statuses : UpdateAnalysisStatus(status)
    \/ \E analysisId \in AnalysisIds : GetAnalysisStatus(analysisId)
    \/ \E videoPath \in VideoPaths : GetAnalysisStatusByVideo(videoPath)

LifecycleSpec == LifecycleInit /\ [][LifecycleNext]_vars

-----------------------------------------------------------------------------
\* whisper.ts, vision-analyzer.ts and frame-extractor.ts: the orchestrators.
\*
\* A call of transcribeVideo or analyzeVideoVisual is a record in `calls`:
\* its arguments, its locals and its position.  A call takes one step from one
\* `await` to the next; the step in which an awaited call settles runs the
\* code up to the next await.  The store has an open handle and its writes
\* succeed; fs.promises.rm of a directory that the call created itself removes
\* it.

\* Bounds of the orchestrator model.

\* Date.now() starts at 2 and is advanced up to MaxNow.
MaxNow == 3

\* The greatest batchSize handed to analyzeVideoVisual besides its default.
MaxBatchSize == 2

\* `maxFrames = 500` of extractVideoFrames.
MaxFrames == 500

\* `batchSize = 5` of analyzeVideoVisual.
DefaultBatchSize == 5

\* A thrown Error; `error instanceof Error ? error.message : String(error)`.
Error(message) == [name |-> "Error", message |-> message]

\* Mutant: every failure is recorded under one message.
ErrorMessageGeneric(error) == "Analysis failed"

ErrorMessage(error) == error.message

\* Mutant: every call gets the same id.
GenerateAnalysisIdFixed(n) == "id1"

\* generateAnalysisId(), when n ids were generated before: no two ids of
\* uuidv4 are the same.
GenerateAnalysisId(n) == <<"id1", "id2">>[n + 1]

\* The directory of mkdtemp: the prefix and a suffix that no other call gets.
Mkdtemp(prefix, c) == [prefix |-> prefix, suffix |-> c]

\* What a call leaves in its trace: a write of its status, or the start of a
\* call that it awaits.
StatusEvent(status) ==
    [ev |-> "status", what |-> status.status, progress |-> status.progress]

CallEvent(what) == [ev |-> "call", what |-> what, progress |-> 0]

\* The trace after a write of a status: a status written again as it was
\* written last is in the trace once.
Rewritten(trace, event) ==
    IF trace # <<>> /\ trace[Len(trace)] = event THEN trace
    ELSE Append(trace, event)

\* Mutant: the progress of a processing status stays 0.
ProcessingAtZero(call, progress) ==
    [analysisId  |-> call.analysisId[1],
     videoPath   |-> call.videoPath,
     type        |-> call.kind,
     status      |-> "processing",
     progress    |-> 0,
     error       |-> None,
     startedAt   |-> call.startTime[1],
     completedAt |-> None]

\* The statuses that the orchestrators hand to updateAnalysisStatus.
Processing(call, progress) ==
    [analysisId  |-> call.analysisId[1],
     videoPath   |-> call.videoPath,
     type        |-> call.kind,
     status      |-> "processing",
     progress    |-> progress,
     error       |-> None,
     startedAt   |-> call.startTime[1],
     completedAt |-> None]

Completed(call, at) ==
    [analysisId  |-> call.analysisId[1],
     videoPath   |-> call.videoPath,
     type        |-> call.kind,
     status      |-> "completed",
     progress    |-> 100,
     error       |-> None,
     startedAt   |-> call.startTime[1],
     completedAt |-> Some(at)]

Failed(call, error, at) ==
    [analysisId  |-> call.analysisId[1],
     videoPath   |-> call.videoPath,
     type        |-> call.kind,
     status      |-> "failed",
     progress    |-> 0,
     error       |-> Some(ErrorMessage(error)),
     startedAt   |-> call.startTime[1],
     completedAt |-> Some(at)]

\* updateAnalysisStatus on an open handle, once for each status in turn.
RECURSIVE UpdateStatuses(_, _)
UpdateStatuses(table, statuses) ==
    IF statuses = <<>> THEN table
    ELSE UpdateStatuses(InsertOrReplace(table, StatusRow(Head(statuses))),
                        Tail(statuses))

\* The call c goes on as `call`.
Becomes(c, call) == calls' = [calls EXCEPT ![c] = call]

\* What no step of an orchestrator changes.
RunFrame == UNCHANGED <<db, opened, outcome, findVars, mergeVars, bridgeVars>>

\* Date.now() advances.
Tick ==
    /\ now < MaxNow
    /\ now' = now + 1
    /\ UNCHANGED <<calls, dirs, generated, storeVars, findVars, mergeVars,
                   bridgeVars>>

\* ---- transcribeVideo ----

\* Mutant: the cached record is returned when re-analysis is forced.
SpeechCacheHitForced(forceReanalyze, rows) == forceReanalyze /\ rows # {}

\* `if (!forceReanalyze) { cached = getSpeechAnalysis(videoPath); if (cached)`.
SpeechCacheHit(forceReanalyze, rows) == ~forceReanalyze /\ rows # {}

\* The catch block of transcribeVideo: the failed status, and the error
\* thrown again.
SpeechCatch(c, call, error) ==
    LET status == Failed(call, error, now)
    IN  /\ analysis_status' = UpdateStatuses(analysis_status, <<status>>)
        /\ Becomes(c, [call EXCEPT !.pc = "threw",
                                   !.thrown = Some(error),
                                   !.trace = Append(@, StatusEvent(status))])
        /\ UNCHANGED <<speech_analysis, visual_analysis>>

\* transcribeVideo is called: the cache check, and on a miss the new id, the
\* first status and the probe of the video.
TranscribeVideo(c) ==
    LET call == calls[c]
        rows == WhereVideoPath(speech_analysis, call.videoPath)
    IN  /\ call.kind = "speech"
        /\ call.pc = "call"
        /\ IF SpeechCacheHit(call.forceReanalyze, rows)
           THEN /\ \E row \in OrderByCreatedAtDescLimit1(rows) :
                      LET cached == SpeechResultOfRow(row)
                      IN  Becomes(c,
                             IF cached.ok
                             THEN [call EXCEPT !.pc = "returned",
                                               !.returned = Some(cached.val)]
                             ELSE [call EXCEPT !.pc = "threw",
                                               !.thrown =
                                                   Some(Error("SyntaxError"))])
                /\ UNCHANGED <<tables, generated>>
           ELSE LET started == [call EXCEPT
                                   !.analysisId =
                                       Some(GenerateAnalysisId(generated)),
                                   !.startTime = Some(now)]
                    status  == Processing(started, 0)
                IN  /\ generated' = generated + 1
                    /\ analysis_status' =
                          UpdateStatuses(analysis_status, <<status>>)
                    /\ Becomes(c, [started EXCEPT
                                      !.pc = "getVideoInfo",
                                      !.trace = <<StatusEvent(status),
                                                  CallEvent("getVideoInfo")>>])
                    /\ UNCHANGED <<speech_analysis, visual_analysis>>
        /\ UNCHANGED <<now, dirs>>
        /\ RunFrame

\* The errors with which an awaited call may fail.
Failures(what) ==
    IF what = "getVideoInfo"
    THEN {Error("Failed to get video info: ffprobe exited with code 1"),
          Error("No video stream found in file")}
    ELSE IF what = "mkdtemp"
    THEN {Error("ENOSPC: no space left on device, mkdtemp")}
    ELSE IF what = "readdir"
    THEN {Error("EMFILE: too many open files, scandir")}
    ELSE IF what = "nodewhisper"
    THEN {Error("whisper exited with code 1")}
    ELSE {Error("ffmpeg exited with code 1")}

\* `await getVideoInfo(videoPath)` settles.
SpeechGetVideoInfo(c) ==
    LET call == calls[c]
    IN  /\ call.kind = "speech"
        /\ call.pc = "getVideoInfo"
        /\ \/ \E d \in Times :
                 /\ Becomes(c, [call EXCEPT
                                   !.duration = Some(d),
                                   !.pc = "mkdtemp",
                                   !.trace = Append(@, CallEvent("mkdtemp"))])
                 /\ UNCHANGED tables
           \/ \E error \in Failures("getVideoInfo") :
                 SpeechCatch(c, [call EXCEPT !.failure = Some(error)], error)
        /\ UNCHANGED <<now, dirs, generated>>
        /\ RunFrame

\* `await fs.promises.mkdtemp(...)` settles: progress 10, and the extraction
\* of the audio starts.
SpeechMkdtemp(c) ==
    LET call == calls[c]
        dir  == Mkdtemp("premiere-mcp-audio-", c)
    IN  /\ call.kind = "speech"
        /\ call.pc = "mkdtemp"
        /\ \/ LET status == Processing(call, 10)
              IN  /\ dirs' = dirs \cup {dir}
                  /\ analysis_status' =
                        UpdateStatuses(analysis_status, <<status>>)
                  /\ Becomes(c, [call EXCEPT
                                    !.tempDir = Some(dir),
                                    !.pc = "extractAudio",
                                    !.trace = @ \o <<StatusEvent(status),
                                                     CallEvent("extractAudio")>>])
                  /\ UNCHANGED <<speech_analysis, visual_analysis>>
           \/ \E error \in Failures("mkdtemp") :
                 /\ SpeechCatch(c, [call EXCEPT !.failure = Some(error)], error)
                 /\ UNCHANGED dirs
        /\ UNCHANGED <<now, generated>>
        /\ RunFrame

\* `await extractAudio(videoPath, audioPath)` settles: progress 30, and the
\* transcription engine is called.
SpeechExtractAudio(c) ==
    LET call == calls[c]
    IN  /\ call.kind = "speech"
        /\ call.pc = "extractAudio"
        /\ \/ LET status == Processing(call, 30)
              IN  /\ analysis_status' =
                        UpdateStatuses(analysis_status, <<status>>)
                  /\ Becomes(c, [call EXCEPT
                                    !.pc = "nodewhisper",
                                    !.engineCalls = @ + 1,
                                    !.trace = @ \o <<StatusEvent(status),
                                                     CallEvent("nodewhisper")>>])
                  /\ UNCHANGED <<speech_analysis, visual_analysis>>
           \/ \E error \in Failures("extractAudio") :
                 SpeechCatch(c, [call EXCEPT !.failure = Some(error)], error)
        /\ UNCHANGED <<now, dirs, generated>>
        /\ RunFrame

\* What nodewhisper resolves with: an array of segments, whose `speech` may be
\* missing, or something that is no array.
WhisperResults ==
    {[isArray |-> TRUE, segs |-> <<>>],
     [isArray |-> TRUE,
      segs    |-> <<[start |-> 0, end |-> 2, speech |-> Some(TextQuoted)],
                    [start |-> 2, end |-> 3, speech |-> None]>>],
     [isArray |-> FALSE, segs |-> <<>>]}

\* `if (Array.isArray(whisperResult))`: the segments of the result, with
\* `id: index` and `text: seg.speech || ""`.
SegmentsOf(whisperResult) ==
    IF ~whisperResult.isArray THEN <<>>
    ELSE [k \in 1..Len(whisperResult.segs) |->
             LET seg == whisperResult.segs[k]
             IN  [id    |-> k - 1,
                  start |-> seg.start,
                  end   |-> seg.end,
                  text  |-> IF seg.speech = None THEN <<>>
                            ELSE seg.speech[1]]]

\* `language || "auto"`.
LanguageOrAuto(language) ==
    IF language = None THEN "auto"
    ELSE IF language[1] = "" THEN "auto" ELSE language[1]

\* Mutant: the record is dated before every stored record.
SpeechResultBackdated(call, whisperResult, at) ==
    [analysisId |-> call.analysisId[1],
     videoPath  |-> call.videoPath,
     duration   |-> call.duration[1],
     language   |-> LanguageOrAuto(call.language),
     segments   |-> SegmentsOf(whisperResult),
     words      |-> <<>>,
     createdAt  |-> 0]

\* The record that transcribeVideo builds.
SpeechResult(call, whisperResult, at) ==
    [analysisId |-> call.analysisId[1],
     videoPath  |-> call.videoPath,
     duration   |-> call.duration[1],
     language   |-> LanguageOrAuto(call.language),
     segments   |-> SegmentsOf(whisperResult),
     words      |-> <<>>,
     createdAt  |-> at]

\* `await nodewhisper(...)` settles: progress 90, the record is saved, the
\* status is completed, and the removal of the directory starts.
SpeechNodewhisper(c) ==
    LET call == calls[c]
    IN  /\ call.kind = "speech"
        /\ call.pc = "nodewhisper"
        /\ \/ \E whisperResult \in WhisperResults :
                 LET transcribed == Processing(call, 90)
                     result      == SpeechResult(call, whisperResult, now)
                     completed   == Completed(call, now)
                 IN  /\ speech_analysis' =
                           InsertOrReplace(speech_analysis, SpeechRow(result))
                     /\ analysis_status' =
                           UpdateStatuses(analysis_status,
                                          <<transcribed, completed>>)
                     /\ Becomes(c, [call EXCEPT
                                       !.result = Some(result),
                                       !.pc = "rm",
                                       !.trace =
                                           @ \o <<StatusEvent(transcribed),
                                                  CallEvent("saveSpeechAnalysis"),
                                                  StatusEvent(completed),
                                                  CallEvent("rm")>>])
                     /\ UNCHANGED visual_analysis
           \/ \E error \in Failures("nodewhisper") :
                 SpeechCatch(c, [call EXCEPT !.failure = Some(error)], error)
        /\ UNCHANGED <<now, dirs, generated>>
        /\ RunFrame

\* Mutant: the removal fails and its error reaches the outer catch block.
SpeechRmRethrows(c) ==
    LET call == calls[c]
    IN  /\ call.kind = "speech"
        /\ call.pc = "rm"
        /\ SpeechCatch(c, call, Error("rm failed"))
        /\ UNCHANGED <<now, dirs, generated>>
        /\ RunFrame

\* `await fs.promises.rm(tempDir, { recursive: true })` settles, and the
\* result is returned.
SpeechRm(c) ==
    LET call == calls[c]
    IN  /\ call.kind = "speech"
        /\ call.pc = "rm"
        /\ dirs' = dirs \ {call.tempDir[1]}
        /\ Becomes(c, [call EXCEPT !.pc = "returned", !.returned = call.result])
        /\ UNCHANGED <<now, generated, tables>>
        /\ RunFrame

\* ---- extractVideoFrames and cleanupFrames ----

\* The offsets of the frames: from 0 up to the duration, one every interval,
\* at most MaxFrames of them.
Timestamps(duration, fps) ==
    LET interval == FrameInterval(fps)
        count    == Min(MaxFrames, (duration + interval - 1) \div interval)
    IN  [k \in 1..count |-> (k - 1) * interval]

\* The frames of extractVideoFrames when `files` frame files were written,
\* each with its path `path.join(tempDir, frameFiles[i])`.
ExtractedFrames(timestamps, files) ==
    [i \in 1..files |->
        [timestamp |-> timestamps[i],
         framePath |-> <<"/", "t", "/">> \o NumberToString(i)]]

\* Mutant: nothing is removed.
CleanupFramesSkipped(tempDir, ds) == ds

\* cleanupFrames(tempDir): the directories that remain.
CleanupFrames(tempDir, ds) ==
    IF tempDir = None THEN ds
    ELSE IF tempDir[1] \in ds THEN ds \ {tempDir[1]} ELSE ds

\* ---- analyzeVideoVisual ----

\* Mutant: a cached record of any sampling rate is a hit.
VisualCacheHitAnyFps(cached, fps) == TRUE

\* `cached && cached.fps === fps`.
VisualCacheHit(cached, fps) == cached.fps = fps

\* `10 + (90 * completed) / total`, rounded by Math.round.
BatchProgress(completed, total) ==
    10 + (180 * completed + total) \div (2 * total)

\* The catch block of analyzeVideoVisual, and its finally block as far as the
\* await of cleanupFrames.
VisualCatch(c, call, error) ==
    LET status == Failed(call, error, now)
    IN  /\ analysis_status' = UpdateStatuses(analysis_status, <<status>>)
        /\ Becomes(c, IF call.tempDir # None
                      THEN [call EXCEPT !.pc = "cleanupFrames",
                                        !.caught = Some(error),
                                        !.trace = Append(@, StatusEvent(status))]
                      ELSE [call EXCEPT !.pc = "threw",
                                        !.caught = Some(error),
                                        !.thrown = Some(error),
                                        !.trace = Append(@, StatusEvent(status))])
        /\ UNCHANGED <<speech_analysis, visual_analysis>>

\* Mutant: every remaining frame goes into the batch.
StartBatchUnbounded(call, i) ==
    LET batch == {j \in 1..Len(call.frames) : i < j}
    IN  [call EXCEPT !.pc = "batch",
                     !.i = i,
                     !.batch = batch,
                     !.inflight = @ \cup batch,
                     !.batchResults = [j \in batch |-> None],
                     !.engineCalls = @ + Cardinality(batch)]

\* The next batch starts at frame index i: analyzeFrame is called on each of
\* its frames, and Promise.all awaits them.
StartBatch(call, i) ==
    LET batch == {j \in 1..Len(call.frames) :
                     i < j /\ j <= i + call.batchSize}
    IN  [call EXCEPT !.pc = "batch",
                     !.i = i,
                     !.batch = batch,
                     !.inflight = @ \cup batch,
                     !.batchResults = [j \in batch |-> None],
                     !.engineCalls = @ + Cardinality(batch)]

\* analyzeVideoVisual is called: the cache check, and on a miss the new id, the
\* first status and the probe of the video.
AnalyzeVideoVisual(c) ==
    LET call   == calls[c]
        rows   == WhereVideoPath(visual_analysis, call.videoPath)
        latest == IF call.forceReanalyze \/ rows = {} THEN {NULL}
                  ELSE OrderByCreatedAtDescLimit1(rows)
    IN  /\ call.kind = "visual"
        /\ call.pc = "call"
        /\ \E row \in latest :
              LET cached == IF row = NULL THEN SyntaxError
                            ELSE VisualResultOfRow(row)
              IN  IF row # NULL /\ ~cached.ok
                  THEN /\ Becomes(c, [call EXCEPT
                                         !.pc = "threw",
                                         !.thrown = Some(Error("SyntaxError"))])
                       /\ UNCHANGED <<tables, generated>>
                  ELSE IF row # NULL /\ VisualCacheHit(cached.val, call.fps)
                  THEN /\ Becomes(c, [call EXCEPT
                                         !.pc = "returned",
                                         !.returned = Some(cached.val)])
                       /\ UNCHANGED <<tables, generated>>
                  ELSE LET started == [call EXCEPT
                                          !.analysisId =
                                              Some(GenerateAnalysisId(generated)),
                                          !.startTime = Some(now)]
                           status  == Processing(started, 0)
                       IN  /\ generated' = generated + 1
                           /\ analysis_status' =
                                 UpdateStatuses(analysis_status, <<status>>)
                           /\ Becomes(c, [started EXCEPT
                                             !.pc = "getVideoInfo",
                                             !.trace = <<StatusEvent(status)>>])
                           /\ UNCHANGED <<speech_analysis, visual_analysis>>
        /\ UNCHANGED <<now, dirs>>
        /\ RunFrame

\* `await getVideoInfo(videoPath)` settles: progress 10, and extractVideoFrames
\* is called, which probes the video again.
VisualGetVideoInfo(c) ==
    LET call == calls[c]
    IN  /\ call.kind = "visual"
        /\ call.pc = "getVideoInfo"
        /\ \/ \E d \in Times :
                 /\ analysis_status' =
                       UpdateStatuses(analysis_status, <<Processing(call, 10)>>)
                 /\ Becomes(c, [call EXCEPT
                                   !.duration = Some(d),
                                   !.pc = "extract.getVideoInfo",
                                   !.trace = Append(@, StatusEvent(
                                                 Processing(call, 10)))])
                 /\ UNCHANGED <<speech_analysis, visual_analysis>>
           \/ \E error \in Failures("getVideoInfo") :
                 VisualCatch(c, [call EXCEPT !.failure = Some(error)], error)
        /\ UNCHANGED <<now, dirs, generated>>
        /\ RunFrame

NoFrames == Error("No frames extracted from video")

\* The probe of extractVideoFrames settles; the file is the one that was
\* probed before.  Without timestamps extractVideoFrames returns no frames and
\* no directory, and analyzeVideoVisual throws.
ExtractGetVideoInfo(c) ==
    LET call       == calls[c]
        timestamps == Timestamps(call.duration[1], call.fps)
    IN  /\ call.kind = "visual"
        /\ call.pc = "extract.getVideoInfo"
        /\ \/ IF Len(timestamps) = 0
              THEN VisualCatch(c, [call EXCEPT !.failure = Some(NoFrames)],
                               NoFrames)
              ELSE /\ Becomes(c, [call EXCEPT !.timestamps = timestamps,
                                              !.pc = "extract.mkdtemp"])
                   /\ UNCHANGED tables
           \/ \E error \in Failures("getVideoInfo") :
                 VisualCatch(c, [call EXCEPT !.failure = Some(error)], error)
        /\ UNCHANGED <<now, dirs, generated>>
        /\ RunFrame

\* `await fs.promises.mkdtemp(...)` of extractVideoFrames settles.
ExtractMkdtemp(c) ==
    LET call == calls[c]
        dir  == Mkdtemp("premiere-mcp-frames-", c)
    IN  /\ call.kind = "visual"
        /\ call.pc = "extract.mkdtemp"
        /\ \/ /\ dirs' = dirs \cup {dir}
              /\ Becomes(c, [call EXCEPT !.extractDir = Some(dir),
                                         !.pc = "extractFrames"])
              /\ UNCHANGED tables
           \/ \E error \in Failures("mkdtemp") :
                 /\ VisualCatch(c, [call EXCEPT !.failure = Some(error)], error)
                 /\ UNCHANGED dirs
        /\ UNCHANGED <<now, generated>>
        /\ RunFrame

\* `await extractFrames(...)` settles: some of the frames were written, or the
\* extraction failed and the catch block removes the directory.
ExtractFrames(c) ==
    LET call == calls[c]
    IN  /\ call.kind = "visual"
        /\ call.pc = "extractFrames"
        /\ \/ \E files \in 0..Len(call.timestamps) :
                 Becomes(c, [call EXCEPT !.files = files, !.pc = "readdir"])
           \/ \E error \in Failures("extractFrames") :
                 Becomes(c, [call EXCEPT !.failure = Some(error),
                                         !.pc = "extract.rm"])
        /\ UNCHANGED <<now, dirs, generated, tables>>
        /\ RunFrame

\* `await fs.promises.readdir(tempDir)` settles and extractVideoFrames
\* returns: analyzeVideoVisual takes the directory, throws when there is no
\* frame, and starts the first batch otherwise.
ExtractReaddir(c) ==
    LET call     == calls[c]
        frames   == ExtractedFrames(call.timestamps, call.files)
        returned == [call EXCEPT !.tempDir = call.extractDir,
                                 !.frames = frames]
    IN  /\ call.kind = "visual"
        /\ call.pc = "readdir"
        /\ \/ IF Len(frames) = 0
              THEN VisualCatch(c, [returned EXCEPT !.failure = Some(NoFrames)],
                               NoFrames)
              ELSE /\ Becomes(c, StartBatch(returned, 0))
                   /\ UNCHANGED tables
           \/ \E error \in Failures("readdir") :
                 /\ Becomes(c, [call EXCEPT !.failure = Some(error),
                                            !.pc = "extract.rm"])
                 /\ UNCHANGED tables
        /\ UNCHANGED <<now, dirs, generated>>
        /\ RunFrame

\* `await fs.promises.rm(tempDir, { recursive: true })` in the catch block of
\* extractVideoFrames settles, and the error is thrown on to analyzeVideoVisual.
ExtractRm(c) ==
    LET call == calls[c]
    IN  /\ call.kind = "visual"
        /\ call.pc = "extract.rm"
        /\ dirs' = dirs \ {call.extractDir[1]}
        /\ VisualCatch(c, call, call.failure[1])
        /\ UNCHANGED <<now, generated>>
        /\ RunFrame

\* What the vision engine answers for a frame: JSON text, text that is no
\* JSON, or a block that is no text; or the request fails.
Responses == {"json", "text", "tool_use", "rejected"}

\* analyzeFrame(frame, prompt) on a response.
AnalyzeFrame(frame, response) ==
    IF response = "rejected"
    THEN [ok |-> FALSE, error |-> Error("429 rate_limit_error")]
    ELSE IF response = "tool_use"
    THEN [ok    |-> FALSE,
          error |-> Error("Unexpected response type from Claude Vision")]
    ELSE IF response = "json"
    THEN [ok  |-> TRUE,
          val |-> [timestamp   |-> frame.timestamp,
                   framePath   |-> frame.framePath,
                   description |-> TextA,
                   objects     |-> <<TextAB>>,
                   scene       |-> TextA]]
    ELSE [ok  |-> TRUE,
          val |-> [timestamp   |-> frame.timestamp,
                   framePath   |-> frame.framePath,
                   description |-> TextQuoted,
                   objects     |-> <<>>,
                   scene       |-> <<"u", "n", "k", "n", "o", "w", "n">>]]

\* One analyzeFrame settles.  While Promise.all is awaited its value is kept,
\* or its error rejects Promise.all; after Promise.all was rejected the calls
\* that are still in flight settle without effect.
AnalyzeFrameSettles(c, j) ==
    LET call    == calls[c]
        settled == [call EXCEPT !.inflight = @ \ {j}]
    IN  /\ call.kind = "visual"
        /\ j \in call.inflight
        /\ IF call.pc = "batch"
           THEN \E response \in Responses :
                   LET analysis == AnalyzeFrame(call.frames[j], response)
                   IN  IF analysis.ok
                       THEN /\ Becomes(c, [settled EXCEPT
                                              !.batchResults[j] =
                                                  Some(analysis.val)])
                            /\ UNCHANGED tables
                       ELSE VisualCatch(c, [settled EXCEPT
                                               !.failure = Some(analysis.error)],
                                        analysis.error)
           ELSE /\ Becomes(c, settled)
                /\ UNCHANGED tables
        /\ UNCHANGED <<now, dirs, generated>>
        /\ RunFrame

\* The record that analyzeVideoVisual builds.
VisualResult(call, frameAnalyses, at) ==
    [analysisId     |-> call.analysisId[1],
     videoPath      |-> call.videoPath,
     duration       |-> call.duration[1],
     fps            |-> call.fps,
     framesAnalyzed |-> Len(frameAnalyses),
     frames         |-> frameAnalyses,
     createdAt      |-> at]

\* The results of a batch, in the order of its frames.
RECURSIVE BatchResults(_, _)
BatchResults(call, batch) ==
    IF batch = {} THEN <<>>
    ELSE LET j == CHOOSE x \in batch : \A y \in batch : x <= y
         IN  <<call.batchResults[j][1]>> \o BatchResults(call, batch \ {j})

\* Promise.all resolves: the results are pushed and the progress is written;
\* then either the delay before the next batch starts, or the loop ends, the
\* record is saved, the status is completed and cleanupFrames is awaited.
PromiseAll(c) ==
    LET call          == calls[c]
        frameAnalyses == call.frameAnalyses \o BatchResults(call, call.batch)
        completed     == call.i + Cardinality(call.batch)
        progress      == Processing(call, BatchProgress(completed,
                                                        Len(call.frames)))
        pushed        == [call EXCEPT !.frameAnalyses = frameAnalyses]
    IN  /\ call.kind = "visual"
        /\ call.pc = "batch"
        /\ \A j \in call.batch : call.batchResults[j] # None
        /\ IF call.i + call.batchSize < Len(call.frames)
           THEN /\ analysis_status' =
                      UpdateStatuses(analysis_status, <<progress>>)
                /\ Becomes(c, [pushed EXCEPT
                                  !.pc = "delay",
                                  !.trace = Rewritten(@, StatusEvent(progress))])
                /\ UNCHANGED <<speech_analysis, visual_analysis>>
           ELSE LET result == VisualResult(call, frameAnalyses, now)
                IN  /\ visual_analysis' =
                          InsertOrReplace(visual_analysis, VisualRow(result))
                    /\ analysis_status' =
                          UpdateStatuses(analysis_status,
                                         <<progress, Completed(call, now)>>)
                    /\ Becomes(c, [pushed EXCEPT
                                      !.result = Some(result),
                                      !.pc = "cleanupFrames",
                                      !.trace =
                                          @ \o <<StatusEvent(progress),
                                                 CallEvent("saveVisualAnalysis"),
                                                 StatusEvent(Completed(call, now))>>])
                    /\ UNCHANGED speech_analysis
        /\ UNCHANGED <<now, dirs, generated>>
        /\ RunFrame

\* The delay between two batches is over: `i += batchSize`, and the next
\* batch starts.
Delay(c) ==
    LET call == calls[c]
    IN  /\ call.kind = "visual"
        /\ call.pc = "delay"
        /\ Becomes(c, StartBatch(call, call.i + call.batchSize))
        /\ UNCHANGED <<now, dirs, generated, tables>>
        /\ RunFrame

\* `await cleanupFrames(tempDir)` in the finally block settles, and the call
\* returns its result or throws what it caught.
VisualCleanup(c) ==
    LET call == calls[c]
    IN  /\ call.kind = "visual"
        /\ call.pc = "cleanupFrames"
        /\ dirs' = CleanupFrames(call.tempDir, dirs)
        /\ Becomes(c, IF call.caught # None
                      THEN [call EXCEPT !.pc = "threw", !.thrown = call.caught]
                      ELSE [call EXCEPT !.pc = "returned",
                                        !.returned = call.result])
        /\ UNCHANGED <<now, generated, tables>>
        /\ RunFrame

\* ---- the calls ----

\* A call that has not started.
NewCall(kind, videoPath, forceReanalyze, language, fps, batchSize) ==
    [kind           |-> kind,
     videoPath      |-> videoPath,
     forceReanalyze |-> forceReanalyze,
     language       |-> language,
     fps            |-> fps,
     batchSize      |-> batchSize,
     pc             |-> "call",
     analysisId     |-> None,
     startTime      |-> None,
     duration       |-> None,
     tempDir        |-> None,
     extractDir     |-> None,
     timestamps     |-> <<>>,
     files          |-> 0,
     frames         |-> <<>>,
     i              |-> 0,
     batch          |-> {},
     inflight       |-> {},
     batchResults   |-> <<>>,
     frameAnalyses  |-> <<>>,
     engineCalls    |-> 0,
     failure        |-> None,
     caught         |-> None,
     result         |-> None,
     returned       |-> None,
     thrown         |-> None,
     trace          |-> <<>>]

\* The calls: with and without a language; with a batchSize from 0 to
\* MaxBatchSize or the default.
SpeechCalls ==
    {NewCall("speech", videoPath, forceReanalyze, language, 1, DefaultBatchSize) :
        videoPath \in VideoPaths, forceReanalyze \in BOOLEAN,
        language \in {None, Some("en")}}

VisualCalls ==
    {NewCall("visual", videoPath, forceReanalyze, None, fps, batchSize) :
        videoPath \in VideoPaths, forceReanalyze \in BOOLEAN,
        fps \in FpsValues,
        batchSize \in (0..MaxBatchSize) \cup {DefaultBatchSize}}

\* The records that earlier analyses of a.mp4 left in the store, with their
\* statuses.
CachedSpeech ==
    [analysisId |-> "id0", videoPath |-> "a.mp4", duration |-> 2,
     language |-> "en",
     segments |-> MkSegments(<<<< <<0, 2>>, TextQuoted >>>>),
     words |-> <<>>, createdAt |-> 1]

CachedVisual ==
    [analysisId |-> "id9", videoPath |-> "a.mp4", duration |-> 2, fps |-> 1,
     framesAnalyzed |-> 1, frames |-> StoredFrames, createdAt |-> 1]

CachedStatus(result, type) ==
    [analysisId |-> result.analysisId, videoPath |-> result.videoPath,
     type |-> type, status |-> "completed", progress |-> 100, error |-> None,
     startedAt |-> 1, completedAt |-> Some(1)]

\* The calls of a behaviour.
Callers == {1}

\* One call of an orchestrator in a process whose store is initialized and
\* holds the records of earlier analyses or none.
AnalysisInit ==
    /\ FindIdle
    /\ MergeIdle
    /\ db = [handle |-> 1]
    /\ opened = 1
    /\ outcome = NULL
    /\ \E hasSpeech \in BOOLEAN, hasVisual \in BOOLEAN :
          /\ speech_analysis =
                IF hasSpeech THEN {SpeechRow(CachedSpeech)} ELSE {}
          /\ visual_analysis =
                IF hasVisual THEN {VisualRow(CachedVisual)} ELSE {}
          /\ analysis_status =
                (IF hasSpeech THEN {StatusRow(CachedStatus(CachedSpeech, "speech"))}
                 ELSE {})
                \cup
                (IF hasVisual THEN {StatusRow(CachedStatus(CachedVisual, "visual"))}
                 ELSE {})
    /\ \E call \in SpeechCalls \cup VisualCalls : calls = <<call>>
    /\ now = 2
    /\ dirs = {}
    /\ generated = 0
    /\ BridgeIdle

\* The steps of the call c.
Step(c) ==
    \/ TranscribeVideo(c)
    \/ SpeechGetVideoInfo(c)
    \/ SpeechMkdtemp(c)
    \/ SpeechExtractAudio(c)
    \/ SpeechNodewhisper(c)
    \/ SpeechRm(c)
    \/ AnalyzeVideoVisual(c)
    \/ VisualGetVideoInfo(c)
    \/ ExtractGetVideoInfo(c)
    \/ ExtractMkdtemp(c)
    \/ ExtractFrames(c)
    \/ ExtractReaddir(c)
    \/ ExtractRm(c)
    \/ \E j \in calls[c].inflight : AnalyzeFrameSettles(c, j)
    \/ PromiseAll(c)
    \/ Delay(c)
    \/ VisualCleanup(c)

\* Any call takes a step, or the clock advances.
AnalysisNext ==
    \/ \E c \in DOMAIN calls : TranscribeVideo(c)
    \/ \E c \in DOMAIN calls : SpeechGetVideoInfo(c)
    \/ \E c \in DOMAIN calls : SpeechMkdtemp(c)
    \/ \E c \in DOMAIN calls : SpeechExtractAudio(c)
    \/ \E c \in DOMAIN calls : SpeechNodewhisper(c)
    \/ \E c \in DOMAIN calls : SpeechRm(c)
    \/ \E c \in DOMAIN calls : AnalyzeVideoVisual(c)
    \/ \E c \in DOMAIN calls : VisualGetVideoInfo(c)
    \/ \E c \in DOMAIN calls : ExtractGetVideoInfo(c)
    \/ \E c \in DOMAIN calls : ExtractMkdtemp(c)
    \/ \E c \in DOMAIN calls : ExtractFrames(c)
    \/ \E c \in DOMAIN calls : ExtractReaddir(c)
    \/ \E c \in DOMAIN calls : ExtractRm(c)
    \/ \E c \in DOMAIN calls : \E j \in calls[c].inflight : AnalyzeFrameSettles(c, j)
    \/ \E c \in DOMAIN calls : PromiseAll(c)
    \/ \E c \in DOMAIN calls : Delay(c)
    \/ \E c \in DOMAIN calls : VisualCleanup(c)
    \/ Tick

AnalysisSpec == AnalysisInit /\ [][AnalysisNext]_vars

\* A call for a video of which the store holds no record.
FirstAnalysisInit ==
    /\ AnalysisInit
    /\ speech_analysis = {}
    /\ visual_analysis = {}
    /\ \A c \in Callers :
          /\ calls[c].videoPath = "b.mp4"
          /\ ~calls[c].forceReanalyze
          /\ calls[c].language = None

\* Every call that is awaited settles: a call that can take a step takes one.
FairAnalysisSpec ==
    /\ FirstAnalysisInit
    /\ [][AnalysisNext]_vars
    /\ \A c \in Callers : WF_vars(Step(c))

\* A forced re-analysis of a.mp4, of which the store holds a speech and a
\* visual record, while other tasks read the store.
ReanalysisInit ==
    /\ AnalysisInit
    /\ speech_analysis # {}
    /\ visual_analysis # {}
    /\ \A c \in Callers :
          /\ calls[c].videoPath = "a.mp4"
          /\ calls[c].forceReanalyze

ReanalysisNext ==
    \/ AnalysisNext
    \/ \E videoPath \in VideoPaths : GetSpeechAnalysis(videoPath)
    \/ \E videoPath \in VideoPaths : GetVisualAnalysis(videoPath)

ReanalysisSpec == ReanalysisInit /\ [][ReanalysisNext]_vars

\* Two calls of transcribeVideo for one video, each forced or not, in a
\* process whose store holds the record of an earlier analysis of a.mp4, one
\* tick before the clock of the model stops.
ConcurrentInit ==
    /\ FindIdle
    /\ MergeIdle
    /\ db = [handle |-> 1]
    /\ opened = 1
    /\ outcome = NULL
    /\ speech_analysis = {SpeechRow(CachedSpeech)}
    /\ analysis_status = {StatusRow(CachedStatus(CachedSpeech, "speech"))}
    /\ visual_analysis = {}
    /\ \E videoPath \in VideoPaths, first \in BOOLEAN, second \in BOOLEAN :
          calls = <<NewCall("speech", videoPath, first, None, 1,
                            DefaultBatchSize),
                    NewCall("speech", videoPath, second, None, 1,
                            DefaultBatchSize)>>
    /\ now = MaxNow - 1
    /\ dirs = {}
    /\ generated = 0
    /\ BridgeIdle

\* Either call takes a step, the clock advances, or a task reads the speech
\* record of the video.
ConcurrentNext ==
    \/ \E c \in DOMAIN calls : TranscribeVideo(c)
    \/ \E c \in DOMAIN calls : SpeechGetVideoInfo(c)
    \/ \E c \in DOMAIN calls : SpeechMkdtemp(c)
    \/ \E c \in DOMAIN calls : SpeechExtractAudio(c)
    \/ \E c \in DOMAIN calls : SpeechNodewhisper(c)
    \/ \E c \in DOMAIN calls : SpeechRm(c)
    \/ Tick
    \/ \E c \in DOMAIN calls : GetSpeechAnalysis(calls[c].videoPath)

ConcurrentSpec == ConcurrentInit /\ [][ConcurrentNext]_vars

-----------------------------------------------------------------------------
\* bridge.ts: PremiereBridge.

\* A WebSocket that `new WebSocket(url)` has constructed.
NewSocket == [state |-> "connecting", sent |-> {}]

\* No call of sendCommand(command) for an id.
NoCall == [called |-> FALSE, registered |-> FALSE, settles |-> <<>>]

\* connect() on the bridge b when the sockets are ss: nothing when connected
\* with a socket, else a new socket becomes `ws`.
connect(b, ss) ==
    IF b.connected /\ b.ws # None THEN [bridge |-> b, sockets |-> ss]
    ELSE [bridge  |-> [b EXCEPT !.ws = Some(Len(ss) + 1)],
          sockets |-> Append(ss, NewSocket)]

\* connect() would construct a WebSocket.
Constructs(b) == ~(b.connected /\ b.ws # None)

\* scheduleReconnect() on the bridge b when the timeouts `pending` are pending
\* and n timeouts were set before.
scheduleReconnect(b, pending, n) ==
    IF b.reconnectTimer # None
    THEN [bridge |-> b, reconnects |-> pending, handles |-> n]
    ELSE [bridge     |-> [b EXCEPT !.reconnectTimer = Some(n + 1)],
          reconnects |-> pending \cup {n + 1},
          handles    |-> n + 1]

\* `ws.close()`: the closing handshake starts on a socket that is not closed.
Close(socket) ==
    IF socket.state \in {"connecting", "open"}
    THEN [socket EXCEPT !.state = "closing"] ELSE socket

\* `ws.send(data)` throws on a socket that is still connecting ("WebSocket
\* is not open: readyState 0 (CONNECTING)").
SendThrows(socket) == socket.state = "connecting"

\* `ws.send(data)` of the command id: the command goes out on an open
\* socket, and is dropped on a socket that is closing or closed.
Send(socket, id) ==
    IF socket.state = "open" THEN [socket EXCEPT !.sent = @ \cup {id}]
    ELSE socket

\* resolve or reject of the promise of a command is called.
Settle(ps, id, how) == [ps EXCEPT ![id].settles = Append(@, how)]

RECURSIVE SettleAll(_, _, _)
SettleAll(ps, ids, how) ==
    IF ids = {} THEN ps
    ELSE LET id == CHOOSE i \in ids : TRUE
         IN  SettleAll(Settle(ps, id, how), ids \ {id}, how)

BridgeFrame == UNCHANGED <<findVars, mergeVars, storeVars, runVars>>

\* A client calls connect().
ConnectCalled ==
    /\ Constructs(bridge) => Len(sockets) < MaxSockets
    /\ LET after == connect(bridge, sockets)
       IN  /\ bridge' = after.bridge
           /\ sockets' = after.sockets
    /\ disconnected' = FALSE
    /\ UNCHANGED <<reconnects, timeouts, promises, handles>>
    /\ BridgeFrame

\* The event "open" of the socket s.
OnOpen(s) ==
    /\ sockets[s].state = "connecting"
    /\ sockets' = [sockets EXCEPT ![s].state = "open"]
    /\ bridge' = [bridge EXCEPT !.connected = TRUE]
    /\ UNCHANGED <<reconnects, timeouts, promises, handles, disconnected>>
    /\ BridgeFrame

\* What arrives on the socket s: text that JSON.parse rejects, a response with
\* an id that no command has (0), or a response to a command sent on s, any
\* number of times.
Messages(s) ==
    {[parses |-> FALSE, id |-> 0]}
    \cup {[parses |-> TRUE, id |-> i] : i \in sockets[s].sent \cup {0}}

\* handleMessage(data).
handleMessage(b, ts, ps, data) ==
    IF data.parses /\ data.id \in b.pendingCommands
    THEN [bridge   |-> [b EXCEPT !.pendingCommands = @ \ {data.id}],
          timeouts |-> ts \ {data.id},
          promises |-> Settle(ps, data.id, "response")]
    ELSE [bridge |-> b, timeouts |-> ts, promises |-> ps]

\* The event "message" of the socket s.
OnMessage(s, data) ==
    /\ sockets[s].state \in {"open", "closing"}
    /\ LET after == handleMessage(bridge, timeouts, promises, data)
       IN  /\ bridge' = after.bridge
           /\ timeouts' = after.timeouts
           /\ promises' = after.promises
    /\ UNCHANGED <<sockets, reconnects, handles, disconnected>>
    /\ BridgeFrame

\* The event "close" of the socket s, after an error, after the peer has
\* closed it or after `ws.close()`.
OnClose(s) ==
    /\ sockets[s].state # "closed"
    /\ sockets' = [sockets EXCEPT ![s].state = "closed"]
    /\ LET after == scheduleReconnect([bridge EXCEPT !.connected = FALSE],
                                      reconnects, handles)
       IN  /\ bridge' = after.bridge
           /\ reconnects' = after.reconnects
           /\ handles' = after.handles
    /\ UNCHANGED <<timeouts, promises, disconnected>>
    /\ BridgeFrame

\* The timeout h of scheduleReconnect fires.
ReconnectTimerFires(h) ==
    /\ h \in reconnects
    /\ Len(sockets) < MaxSockets
    /\ reconnects' = reconnects \ {h}
    /\ LET after == connect([bridge EXCEPT !.reconnectTimer = None], sockets)
       IN  /\ bridge' = after.bridge
           /\ sockets' = after.sockets
    /\ UNCHANGED <<timeouts, promises, handles, disconnected>>
    /\ BridgeFrame

\* sendCommand(command) with the fresh id `id`.
SendCommand(id) ==
    /\ ~promises[id].called
    /\ IF ~bridge.connected \/ bridge.ws = None
       THEN /\ promises' = [promises EXCEPT
                               ![id] = [called     |-> TRUE,
                                        registered |-> FALSE,
                                        settles    |-> <<"not connected">>]]
            /\ UNCHANGED <<bridge, sockets, timeouts>>
       ELSE LET s == bridge.ws[1]
            IN  /\ timeouts' = timeouts \cup {id}
                /\ bridge' = [bridge EXCEPT !.pendingCommands = @ \cup {id}]
                /\ sockets' = [sockets EXCEPT ![s] = Send(@, id)]
                /\ promises' =
                      [promises EXCEPT
                          ![id] = [called     |-> TRUE,
                                   registered |-> TRUE,
                                   settles    |-> IF SendThrows(sockets[s])
                                                  THEN <<"send threw">>
                                                  ELSE <<>>]]
    /\ UNCHANGED <<reconnects, handles, disconnected>>
    /\ BridgeFrame

\* The timeout of the command id fires.
CommandTimerFires(id) ==
    /\ id \in timeouts
    /\ timeouts' = timeouts \ {id}
    /\ bridge' = [bridge EXCEPT !.pendingCommands = @ \ {id}]
    /\ promises' = Settle(promises, id, "timeout")
    /\ UNCHANGED <<sockets, reconnects, handles, disconnected>>
    /\ BridgeFrame

\* disconnect().
Disconnect ==
    /\ reconnects' = IF bridge.reconnectTimer # None
                     THEN reconnects \ {bridge.reconnectTimer[1]}
                     ELSE reconnects
    /\ sockets' = IF bridge.ws # None
                  THEN [sockets EXCEPT ![bridge.ws[1]] = Close(@)]
                  ELSE sockets
    /\ timeouts' = timeouts \ bridge.pendingCommands
    /\ promises' = SettleAll(promises, bridge.pendingCommands, "disconnect")
    /\ bridge' = [ws |-> None, connected |-> FALSE, pendingCommands |-> {},
                  reconnectTimer |-> None]
    /\ disconnected' = TRUE
    /\ UNCHANGED handles
    /\ BridgeFrame

\* A PremiereBridge is constructed in a process that does nothing else.
BridgeInit == FindIdle /\ MergeIdle /\ StoreIdle /\ RunIdle /\ BridgeIdle

BridgeNext ==
    \/ ConnectCalled
    \/ \E s \in DOMAIN sockets : OnOpen(s)
    \/ \E s \in DOMAIN sockets : \E data \in Messages(s) : OnMessage(s, data)
    \/ \E s \in DOMAIN sockets : OnClose(s)
    \/ \E h \in reconnects : ReconnectTimerFires(h)
    \/ \E id \in CommandIds : SendCommand(id)
    \/ \E id \in CommandIds : CommandTimerFires(id)
    \/ Disconnect

BridgeSpec == BridgeInit /\ [][BridgeNext]_vars

-----------------------------------------------------------------------------
\* Properties of mergeOverlappingSegments (MergeSpec).

\* The smallest and the largest member of a non-empty set of integers.
Least(S) == CHOOSE x \in S : \A y \in S : x <= y

Greatest(S) == CHOOSE x \in S : \A y \in S : x >= y

\* Candidates i and j of list l belong to the same run: every unit of time
\* between their starts lies inside one candidate of l, so a chain of
\* overlapping or touching candidates joins them.
SameRun(l, i, j) ==
    \A t \in Min(l[i].start, l[j].start)..(Max(l[i].start, l[j].start) - 1) :
        \E k \in 1..Len(l) : l[k].start <= t /\ t + 1 <= l[k].end

\* The run of candidate i of list l, as a set of indices.
RunOf(l, i) == {j \in 1..Len(l) : SameRun(l, i, j)}

\* The indices of a run in start order, ties in list order.
InStartOrder(l, R) ==
    LET Earlier(j, i) == \/ l[j].start < l[i].start
                         \/ l[j].start = l[i].start /\ j < i
    IN  [p \in 1..Cardinality(R) |->
            CHOOSE i \in R : Cardinality({j \in R : Earlier(j, i)}) = p - 1]

\* C1: in the list mergeOverlappingSegments returns, taken in the order
\* returned (by start), every segment ends strictly before the next one
\* starts: no two merged segments overlap or touch.
C1_MergedDisjoint ==
    mpc = "once" =>
        \A k \in 1..(Len(mergeOut) - 1) :
            /\ mergeOut[k].start <= mergeOut[k + 1].start
            /\ mergeOut[k].end < mergeOut[k + 1].start

\* C1 witness: a merge that joined two touching candidates and kept another
\* segment apart.
C1_Witness ==
    /\ mpc = "once"
    /\ Len(mergeIn) = 3
    /\ Len(mergeOut) = 2
    /\ \E i, j \in 1..3 : i # j /\ mergeIn[i].end = mergeIn[j].start
                          /\ SameRun(mergeIn, i, j)
                          /\ mergeIn[i].start < mergeIn[j].start

\* What C6 says of the segment m that stands for the run R of list l.
MergedAsClaimed(l, R, m) ==
    LET order == InStartOrder(l, R)
        types == {l[i].matchType : i \in R}
    IN  /\ m.start = Least({l[i].start : i \in R})
        /\ m.end = Greatest({l[i].end : i \in R})
        /\ m.confidence = Greatest({l[i].confidence : i \in R})
        /\ m.context = l[order[1]].context
        /\ m.matchedContent =
              Join([p \in 1..Len(order) |-> l[order[p]].matchedContent],
                   <<" ", "|", " ">>)
        /\ m.matchType = IF Cardinality(types) = 1
                         THEN CHOOSE t \in types : TRUE ELSE "speech"

\* C6: every run of two or more candidates is returned as one segment with
\* the earliest start, the greatest end, the greatest confidence, the context
\* of the earliest-starting candidate, the contents joined by " | " in start
\* order, and the common type of the run or else speech.
C6_MergedFields ==
    mpc = "once" =>
        \A i \in 1..Len(mergeIn) :
            LET R == RunOf(mergeIn, i)
            IN  Cardinality(R) >= 2 =>
                    \E k \in 1..Len(mergeOut) :
                        MergedAsClaimed(mergeIn, R, mergeOut[k])

\* C6 witness: a run visual, speech, visual (in start order, which is not the
\* list order) merged into one segment, the second lying inside the first.
C6_Witness ==
    /\ mpc = "once"
    /\ Len(mergeIn) = 3
    /\ Len(mergeOut) = 1
    /\ mergeIn[2].start < mergeIn[1].start
    /\ mergeIn[1].start < mergeIn[3].start
    /\ mergeIn[2].matchType = "visual"
    /\ mergeIn[1].matchType = "speech"
    /\ mergeIn[3].matchType = "visual"
    /\ mergeIn[1].end < mergeIn[2].end
    /\ mergeOut[1].matchType = "speech"

\* C10: merging the list that a merge returned gives that list again, element
\* by element and in the same order.
C10_MergeIdempotent == mpc = "twice" => mergeAgain = mergeOut

\* C10 witness: a second merge of a list of two segments, one of them the
\* product of a merge.
C10_Witness ==
    /\ mpc = "twice"
    /\ Len(mergeIn) = 3
    /\ Len(mergeOut) = 2
    /\ Len(mergeAgain) = 2

-----------------------------------------------------------------------------
\* Properties of findSegments (Spec).

\* Text t contains the query, both lowered unless the search is case
\* sensitive.
QueryIn(t) ==
    IF options.caseSensitive THEN Includes(t, options.query)
    ELSE Includes(ToLowerCase(t), ToLowerCase(options.query))

SpeechSearched ==
    speechAnalysis # NULL /\ options.searchType \in {"speech", "both"}

VisualSearched ==
    visualAnalysis # NULL /\ options.searchType \in {"visual", "both"}

SegmentHit(seg) == QueryIn(seg.text)

FrameHit(frame) ==
    \/ QueryIn(frame.description)
    \/ QueryIn(frame.scene)
    \/ \E k \in 1..Len(frame.objects) : QueryIn(frame.objects[k])

\* A candidate made from a transcript segment: words have a confidence
\* below 1.0 in this model.
IsSegmentLevel(c) == c.matchType = "speech" /\ c.confidence = SegmentConfidence

IsVisual(c) == c.matchType = "visual"

\* The interval of the candidate of transcript segment S.
ExpandedStart(S) == Max(0, S.start - options.expandBy)

ExpandedEnd(S) == S.end + options.expandBy

\* C2: a matching transcript segment whose candidate passes the duration
\* filter is covered by a returned segment, when the truncation drops nothing.
C2_MatchCovered ==
    (pc = "done" /\ SpeechSearched /\ Len(merged) <= options.maxResults) =>
        \A i \in 1..Len(speechAnalysis.segments) :
            LET S == speechAnalysis.segments[i]
            IN  (SegmentHit(S)
                 /\ ExpandedEnd(S) - ExpandedStart(S) >= options.minDuration) =>
                    \E k \in 1..Len(results) :
                        /\ results[k].start <= ExpandedStart(S)
                        /\ ExpandedEnd(S) <= results[k].end

\* C2 witness: a matching segment that was merged with a candidate lying
\* inside it, next to another returned segment.
C2_Witness ==
    /\ pc = "done"
    /\ SpeechSearched
    /\ Len(results) = 1
    /\ Len(filtered) = 2
    /\ \E i \in 1..Len(speechAnalysis.segments) :
          LET S == speechAnalysis.segments[i]
          IN  /\ SegmentHit(S)
              /\ \E j \in 1..2 : /\ filtered[j].start > ExpandedStart(S)
                                 /\ filtered[j].end < ExpandedEnd(S)
              /\ results[1].start = ExpandedStart(S)
              /\ results[1].end = ExpandedEnd(S)

\* C3: the segment-level candidates are, in order, one per transcript segment
\* whose text contains the query, from start - expandBy floored at 0 to
\* end + expandBy, of type speech, confidence 1.0 and the segment's text as
\* content; no other segment-level candidate is made, and none at all when
\* speech is not searched.
C3_SegmentCandidates ==
    pc = "done" =>
        LET made == SelectSeq(segments, IsSegmentLevel)
            hits == IF SpeechSearched
                    THEN SelectSeq(speechAnalysis.segments, SegmentHit)
                    ELSE <<>>
        IN  /\ Len(made) = Len(hits)
            /\ \A p \in 1..Len(hits) :
                  /\ made[p].start = Max(0, hits[p].start - options.expandBy)
                  /\ made[p].end = hits[p].end + options.expandBy
                  /\ made[p].matchType = "speech"
                  /\ made[p].confidence = 100
                  /\ made[p].matchedContent = hits[p].text

\* C3 witness: of two transcript segments the one starting at 0 contains the
\* query only once lowered, the other does not contain it; expandBy is 0.5 s.
C3_Witness ==
    /\ pc = "done"
    /\ SpeechSearched
    /\ Len(speechAnalysis.segments) = 2
    /\ SegmentHit(speechAnalysis.segments[1])
    /\ ~Includes(speechAnalysis.segments[1].text, options.query)
    /\ ~SegmentHit(speechAnalysis.segments[2])
    /\ speechAnalysis.segments[1].start = 0
    /\ options.expandBy = 1
    /\ Len(SelectSeq(segments, IsSegmentLevel)) = 1

\* C4: the visual candidates are, in order, one per frame whose description,
\* scene or one of whose objects contains the query, from timestamp -
\* expandBy floored at 0 to timestamp + 1/fps + expandBy, of type visual and
\* confidence 0.8; no other visual candidate is made, and none at all when
\* visual is not searched.
C4_FrameCandidates ==
    pc = "done" =>
        LET made == SelectSeq(segments, IsVisual)
            hits == IF VisualSearched
                    THEN SelectSeq(visualAnalysis.frames, FrameHit)
                    ELSE <<>>
        IN  /\ Len(made) = Len(hits)
            /\ \A p \in 1..Len(hits) :
                  /\ made[p].start = Max(0, hits[p].timestamp - options.expandBy)
                  /\ made[p].end = hits[p].timestamp
                                   + (IF visualAnalysis.fps = 1 THEN 2 ELSE 1)
                                   + options.expandBy
                  /\ made[p].confidence = 80

\* C4 witness: a frame that contains the query in its second object only.
C4_Witness ==
    /\ pc = "done"
    /\ VisualSearched
    /\ Len(visualAnalysis.frames) = 1
    /\ LET f == visualAnalysis.frames[1]
       IN  /\ ~QueryIn(f.description)
           /\ ~QueryIn(f.scene)
           /\ Len(f.objects) = 2
           /\ ~QueryIn(f.objects[1])
           /\ QueryIn(f.objects[2])
    /\ Len(SelectSeq(segments, IsVisual)) = 1

\* The candidates that pass the duration filter and start inside r.
KeptInside(r) ==
    {i \in 1..Len(segments) :
        /\ segments[i].duration >= options.minDuration
        /\ r.start <= segments[i].start
        /\ segments[i].start <= r.end}

\* C5: every returned segment lasts at least minDuration, and its interval,
\* content and confidence are those of the candidates that pass the duration
\* filter alone: a dropped candidate adds nothing, even where it overlaps.
C5_DroppedAddNothing ==
    pc = "done" =>
        \A k \in 1..Len(results) :
            LET r == results[k]
                K == KeptInside(r)
                order == InStartOrder(segments, K)
            IN  /\ r.duration >= options.minDuration
                /\ K # {}
                /\ r.start = Least({segments[i].start : i \in K})
                /\ r.end = Greatest({segments[i].end : i \in K})
                /\ r.confidence = Greatest({segments[i].confidence : i \in K})
                /\ r.matchedContent =
                      Join([p \in 1..Len(order) |->
                               segments[order[p]].matchedContent],
                           <<" ", "|", " ">>)

\* C5 witness: a candidate too short for minDuration reaches beyond the end of
\* a kept candidate that it overlaps, and the kept one is returned.
C5_Witness ==
    /\ pc = "done"
    /\ Len(results) = 1
    /\ \E i, j \in 1..Len(segments) :
          /\ segments[i].duration < options.minDuration
          /\ segments[j].duration >= options.minDuration
          /\ segments[i].start <= segments[j].end
          /\ segments[j].start <= segments[i].start
          /\ segments[i].end > segments[j].end
          /\ results[1].end = segments[j].end

\* The elements of a sequence.
Elements(l) == {l[i] : i \in 1..Len(l)}

\* C7: the returned segments are merged segments in non-increasing order of
\* confidence, at most maxResults of them, and no merged segment that was
\* left out has a higher confidence than a returned one.
C7_RankedAndTruncated ==
    pc = "done" =>
        /\ Elements(results) \subseteq Elements(merged)
        /\ Len(results) <= options.maxResults
        /\ \A k \in 1..(Len(results) - 1) :
              results[k].confidence >= results[k + 1].confidence
        /\ \A m \in Elements(merged) \ Elements(results) :
              \A r \in Elements(results) : m.confidence <= r.confidence

\* C7 witness: of two merged segments the later one has the higher confidence
\* and maxResults is 1.
C7_Witness ==
    /\ pc = "done"
    /\ Len(merged) = 2
    /\ Len(results) = 1
    /\ merged[1].confidence < merged[2].confidence

\* C8: every returned segment has duration = end - start.
C8_DurationIsEndMinusStart ==
    pc = "done" =>
        \A k \in 1..Len(results) :
            results[k].duration = results[k].end - results[k].start

\* C8 witness: a returned segment that is the product of a merge and lasts
\* longer than each of the two candidates merged.
C8_Witness ==
    /\ pc = "done"
    /\ Len(filtered) = 2
    /\ Len(results) = 1
    /\ results[1].duration > filtered[1].duration
    /\ results[1].duration > filtered[2].duration

\* C9: every returned segment has start >= 0 and end > start, whatever the
\* options minDuration and expandBy.
C9_PositiveInterval ==
    pc = "done" =>
        \A k \in 1..Len(results) :
            results[k].start >= 0 /\ results[k].end > results[k].start

\* C11: findSegments returns a list for every input, also when records are
\* missing; a source that is absent or that searchType does not ask for contributes no
\* candidate, a source that is present and asked for contributes one candidate
\* per matching item, and with both records absent the result is empty.
C11_AbsentSourcesAddNothing ==
    pc = "done" =>
        /\ ~SpeechSearched =>
              \A k \in 1..Len(segments) : segments[k].matchType # "speech"
        /\ ~VisualSearched =>
              \A k \in 1..Len(segments) : segments[k].matchType # "visual"
        /\ SpeechSearched =>
              Len(SelectSeq(segments, IsSegmentLevel))
                  = Len(SelectSeq(speechAnalysis.segments, SegmentHit))
        /\ VisualSearched =>
              Len(SelectSeq(segments, IsVisual))
                  = Len(SelectSeq(visualAnalysis.frames, FrameHit))
        /\ (speechAnalysis = NULL /\ visualAnalysis = NULL) => results = <<>>

\* C11 witness: a speech record with a matching segment that searchType
\* "visual" does not ask for, no visual record, and an empty result.
C11_Witness ==
    /\ pc = "done"
    /\ speechAnalysis # NULL
    /\ \E i \in 1..Len(speechAnalysis.segments) :
          SegmentHit(speechAnalysis.segments[i])
    /\ options.searchType = "visual"
    /\ visualAnalysis = NULL
    /\ segments = <<>>
    /\ results = <<>>


\* A candidate made from a word, and a word that contains the query.
IsWordLevel(c) == c.matchType = "speech" /\ c.confidence # SegmentConfidence

WordHit(w) == QueryIn(w.word)

\* The transcript segments that temporally contain the word w.
Containing(w) ==
    {i \in 1..Len(speechAnalysis.segments) :
        /\ speechAnalysis.segments[i].start <= w.start
        /\ w.end <= speechAnalysis.segments[i].end}

\* The candidate c carries the word w: its end, confidence and content, and
\* as context the text of the first segment that contains w, or no text.
CarriesWord(c, w) ==
    /\ c.end = w.end + options.expandBy
    /\ c.matchType = "speech"
    /\ c.confidence = w.confidence
    /\ c.matchedContent = w.word
    /\ IF Containing(w) = {} THEN c.context = <<>>
       ELSE c.context = speechAnalysis.segments[Least(Containing(w))].text

\* The word-level candidates and the words that contain the query.
WordLevel == SelectSeq(segments, IsWordLevel)

WordHits ==
    IF SpeechSearched THEN SelectSeq(speechAnalysis.words, WordHit) ELSE <<>>

\* The segment-level candidates are those of the matching segments alone.
SegmentLevelApart ==
    Len(SelectSeq(segments, IsSegmentLevel)) =
       (IF SpeechSearched
        THEN Len(SelectSeq(speechAnalysis.segments, SegmentHit)) ELSE 0)

\* C24 as stated: one word-level candidate per word that contains the query,
\* apart from the segment-level candidates, from word.start - expandBy to
\* word.end + expandBy, with the word's confidence, the word as content and
\* the text of the containing segment, or no text, as context.
C24_WordCandidates ==
    pc = "done" =>
        /\ Len(WordLevel) = Len(WordHits)
        /\ SegmentLevelApart
        /\ \A p \in 1..Len(WordHits) :
              /\ WordLevel[p].start = WordHits[p].start - options.expandBy
              /\ CarriesWord(WordLevel[p], WordHits[p])

\* C24, amended: as stated, with the start floored at 0.
C24_WordCandidatesFloored ==
    pc = "done" =>
        /\ Len(WordLevel) = Len(WordHits)
        /\ SegmentLevelApart
        /\ \A p \in 1..Len(WordHits) :
              /\ WordLevel[p].start =
                    Max(0, WordHits[p].start - options.expandBy)
              /\ CarriesWord(WordLevel[p], WordHits[p])

\* C24 witness: a word at 0 s that contains the query and lies in a segment
\* which contains it too, with expandBy 0.5 s: one candidate for each.
C24_Witness ==
    /\ pc = "done"
    /\ SpeechSearched
    /\ Len(WordHits) = 1
    /\ WordHits[1].start = 0
    /\ options.expandBy = 1
    /\ Containing(WordHits[1]) # {}
    /\ WordLevel[1].context # <<>>
    /\ WordLevel[1].start = 0
    /\ Len(SelectSeq(segments, IsSegmentLevel)) = 1

\* The segment-level candidates, in the order they were pushed.
SegmentLevel == SelectSeq(segments, IsSegmentLevel)

\* The position in speechAnalysis.segments of the p-th segment that contains
\* the query.
HitPosition(p) ==
    LET segs == speechAnalysis.segments
    IN  CHOOSE i \in 1..Len(segs) :
            /\ SegmentHit(segs[i])
            /\ Cardinality({j \in 1..i : SegmentHit(segs[j])}) = p

\* The text of the segment at position i, the text of the one before it, if
\* any, in front and the text of the one after it, if any, behind, a single
\* space between two texts.
WithNeighbours(i) ==
    LET segs == speechAnalysis.segments
        before == IF i > 1 THEN segs[i - 1].text \o <<" ">> ELSE <<>>
        after  == IF i < Len(segs) THEN <<" ">> \o segs[i + 1].text ELSE <<>>
    IN  before \o segs[i].text \o after

\* C25: the context of a segment-level candidate is the text of the matching
\* segment with the text of the one segment before and of the one segment
\* after it in speechAnalysis.segments, fewer at the ends, joined by single
\* spaces in the order of the sequence, whatever the position of the matching
\* segment; the matching segment's own text is always part of it.
C25_ContextIsNeighbourhood ==
    (pc = "done" /\ SpeechSearched) =>
        /\ Len(SegmentLevel) = Len(SelectSeq(speechAnalysis.segments, SegmentHit))
        /\ \A p \in 1..Len(SegmentLevel) :
              LET i == HitPosition(p)
              IN  /\ SegmentLevel[p].matchedContent =
                        speechAnalysis.segments[i].text
                  /\ SegmentLevel[p].context = WithNeighbours(i)
                  /\ Includes(SegmentLevel[p].context,
                              speechAnalysis.segments[i].text)

\* C25 witness: three segments of which the first and the last contain the
\* query and the middle one does not; the context of the first candidate
\* ends with the middle text and the context of the second begins with it.
C25_Witness ==
    /\ pc = "done"
    /\ SpeechSearched
    /\ Len(speechAnalysis.segments) = 3
    /\ Len(SegmentLevel) = 2
    /\ HitPosition(1) = 1
    /\ HitPosition(2) = 3
    /\ SegmentLevel[1].context = TextAB \o <<" ">> \o TextA
    /\ SegmentLevel[2].context = TextA \o <<" ">> \o TextAB

-----------------------------------------------------------------------------
\* Properties of the store (StoreSpec, LifecycleSpec).

\* What C12 says of the last lookup `op` in table `table`.
LatestAsClaimed(table, op) ==
    (db # NULL /\ outcome # NULL /\ outcome.op = op) =>
        LET stored == {r \in table : r.video_path = outcome.arg.videoPath}
        IN  /\ outcome.error = None
            /\ IF stored = {} THEN outcome.value = NULL
               ELSE /\ outcome.value # NULL
                    /\ outcome.value.videoPath = outcome.arg.videoPath
                    /\ \E r \in stored :
                          /\ r.analysis_id = outcome.value.analysisId
                          /\ r.created_at = outcome.value.createdAt
                    /\ \A r \in stored :
                          r.created_at <= outcome.value.createdAt

\* C12: after any sequence of saves, getSpeechAnalysis(videoPath) and
\* getVisualAnalysis(videoPath) return without error; they return a record
\* stored for that path whose createdAt no record stored for that path
\* exceeds, and absent when no record is stored for that path.
C12_LatestForPath ==
    /\ LatestAsClaimed(speech_analysis, "getSpeechAnalysis")
    /\ LatestAsClaimed(visual_analysis, "getVisualAnalysis")

\* C12 witness: two speech records of one video, a record of another video
\* in the visual table, and a lookup that returned the later-created of the
\* two.
C12_Witness ==
    /\ db # NULL
    /\ outcome # NULL
    /\ outcome.op = "getSpeechAnalysis"
    /\ outcome.value # NULL
    /\ \E r, q \in speech_analysis :
          /\ r.video_path = outcome.arg.videoPath
          /\ q.video_path = outcome.arg.videoPath
          /\ q.created_at < r.created_at
          /\ outcome.value.analysisId = r.analysis_id
    /\ \E v \in visual_analysis : v.video_path # outcome.arg.videoPath

\* The step is a getSpeechAnalysis(r.videoPath) that follows a
\* saveSpeechAnalysis(r) at once.
ReadsBackSaved ==
    /\ outcome # NULL
    /\ outcome.op = "saveSpeechAnalysis"
    /\ outcome.error = None
    /\ outcome'.op = "getSpeechAnalysis"
    /\ outcome'.arg.videoPath = outcome.arg.videoPath

\* The lookup of the step returned the segments and words of the saved r.
SameSegmentsAndWords ==
    /\ outcome'.error = None
    /\ outcome'.value # NULL
    /\ outcome'.value.segments = outcome.arg.segments
    /\ outcome'.value.words = outcome.arg.words

\* Every other record stored for the video of the saved r was created
\* strictly before r.
SavedIsLatest ==
    \A q \in speech_analysis :
        (q.video_path = outcome.arg.videoPath
         /\ q.analysis_id # outcome.arg.analysisId) =>
            q.created_at < outcome.arg.createdAt

\* C13 as stated: in every store state, saveSpeechAnalysis(r) followed at
\* once by getSpeechAnalysis(r.videoPath) returns the segments and words of r.
C13_RoundTrip == [][ReadsBackSaved => SameSegmentsAndWords]_vars

\* C13 as amended: saveSpeechAnalysis(r) followed at once by
\* getSpeechAnalysis(r.videoPath) returns the segments and words of r when
\* every other record stored for r.videoPath has a smaller createdAt.
C13_RoundTripOfLatest ==
    [][(ReadsBackSaved /\ SavedIsLatest) => SameSegmentsAndWords]_vars

\* C13 witness: a lookup that returned two segments and a word with a quote
\* and a backslash in its text, while an older record of the same video is
\* stored.
C13_Witness ==
    /\ outcome # NULL
    /\ outcome.op = "getSpeechAnalysis"
    /\ outcome.value # NULL
    /\ Len(outcome.value.segments) = 2
    /\ Len(outcome.value.words) = 1
    /\ outcome.value.words[1].word = TextQuoted
    /\ \E q \in speech_analysis :
          /\ q.video_path = outcome.value.videoPath
          /\ q.created_at < outcome.value.createdAt

\* The operations that need the handle.
StoreOperations ==
    {"getSpeechAnalysis", "saveSpeechAnalysis", "getVisualAnalysis",
     "saveVisualAnalysis", "getAnalysisStatus", "getAnalysisStatusByVideo",
     "updateAnalysisStatus"}

\* C14: a store operation that runs while db is null throws "Cache not
\* initialized" and leaves every table and the handle as they were;
\* initializeCache on an initialized store keeps the handle and the tables.
C14_UninitializedFailsFast ==
    [][/\ (db = NULL /\ outcome'.op \in StoreOperations) =>
             /\ outcome'.error = Some(NotInitialized)
             /\ tables' = tables
             /\ db' = NULL
       /\ (db # NULL /\ outcome'.op = "initializeCache") =>
             /\ outcome'.error = None
             /\ db' = db
             /\ opened' = opened
             /\ tables' = tables]_vars

\* C14 witness: after closeCache, with a speech record and a status stored, a
\* save was refused.
C14_Witness ==
    /\ db = NULL
    /\ opened >= 1
    /\ speech_analysis # {}
    /\ analysis_status # {}
    /\ outcome.op = "saveSpeechAnalysis"
    /\ outcome.error = Some(NotInitialized)

-----------------------------------------------------------------------------
\* Properties of the orchestrators (AnalysisSpec).

\* The call c takes the step of transcribeVideo in which the cache check
\* finds a record and re-analysis is not forced.
SpeechCacheHitStep(c) ==
    /\ calls[c].kind = "speech"
    /\ calls[c].pc = "call"
    /\ ~calls[c].forceReanalyze
    /\ WhereVideoPath(speech_analysis, calls[c].videoPath) # {}
    /\ calls'[c] # calls[c]

\* C15: transcribeVideo called with forceReanalyze = false while a speech
\* record is cached for videoPath returns that record (the latest stored for
\* the path) and changes nothing else: the engine is not invoked, no status is
\* written, no analysisId is generated, no table is written and no directory
\* is created.
C15_CacheHitReturnsCached ==
    [][\A c \in DOMAIN calls :
          SpeechCacheHitStep(c) =>
             /\ calls'[c].pc = "returned"
             /\ calls'[c].returned # None
             /\ \E row \in WhereVideoPath(speech_analysis, calls[c].videoPath) :
                   /\ \A other \in WhereVideoPath(speech_analysis,
                                                  calls[c].videoPath) :
                         other.created_at <= row.created_at
                   /\ SpeechRow(calls'[c].returned[1]) = row
             /\ calls'[c].engineCalls = 0
             /\ calls'[c].trace = <<>>
             /\ calls'[c].analysisId = None
             /\ generated' = generated
             /\ speech_analysis' = speech_analysis
             /\ visual_analysis' = visual_analysis
             /\ analysis_status' = analysis_status
             /\ dirs' = dirs]_vars

C15_Witness ==
    \E c \in DOMAIN calls :
       /\ calls[c].kind = "speech"
       /\ calls[c].pc = "returned"
       /\ ~calls[c].forceReanalyze
       /\ calls[c].returned = Some(CachedSpeech)
       /\ generated = 0

\* The status writes of a call and the starts of its audio extraction and of
\* its engine call, in the order in which they happened.
StatusesAndWork(c) ==
    LET Kept(e) == e.ev = "status" \/ e.what \in {"extractAudio", "nodewhisper"}
    IN  SelectSeq(calls[c].trace, Kept)

\* A call of transcribeVideo that analysed the video and succeeded.
Transcribed(c) ==
    /\ calls[c].kind = "speech"
    /\ calls[c].pc \in {"rm", "returned"}
    /\ calls[c].analysisId # None

Wrote(status, progress) ==
    [ev |-> "status", what |-> status, progress |-> progress]

\* C16 as stated: a successful analysis writes processing 0, extracts the
\* audio, writes progress 10, calls the engine, writes progress 90 and then
\* completed 100, and writes no other progress.
C16_StatusOrder ==
    \A c \in DOMAIN calls :
       Transcribed(c) =>
          StatusesAndWork(c) = <<Wrote("processing", 0),
                                 CallEvent("extractAudio"),
                                 Wrote("processing", 10),
                                 CallEvent("nodewhisper"),
                                 Wrote("processing", 90),
                                 Wrote("completed", 100)>>

\* C16, amended: a successful analysis writes processing 0, writes progress 10
\* before it extracts the audio, writes progress 30 after the extraction,
\* calls the engine, writes progress 90 and then completed 100, and writes no
\* other progress.
C16_StatusOrderOfCode ==
    \A c \in DOMAIN calls :
       Transcribed(c) =>
          StatusesAndWork(c) = <<Wrote("processing", 0),
                                 Wrote("processing", 10),
                                 CallEvent("extractAudio"),
                                 Wrote("processing", 30),
                                 CallEvent("nodewhisper"),
                                 Wrote("processing", 90),
                                 Wrote("completed", 100)>>

C16_Witness ==
    \E c \in DOMAIN calls :
       /\ Transcribed(c)
       /\ calls[c].pc = "returned"
       /\ calls[c].forceReanalyze
       /\ calls[c].engineCalls = 1

\* The rows of a table that carry the analysisId of the call c.
RowsOf(table, c) ==
    {row \in table : row.analysis_id = calls[c].analysisId[1]}

\* The error of a failed external call has reached the catch block of c.
Caught(c) ==
    /\ calls[c].failure # None
    /\ calls[c].pc \in {"cleanupFrames", "threw"}

Started(c) == calls[c].analysisId # None

\* The call c has written a terminal status and has returned or thrown.
Ended(c) ==
    /\ calls[c].pc \in {"returned", "threw"}
    /\ \E row \in RowsOf(analysis_status, c) :
          row.status \in {"completed", "failed"}

\* C18: every analysis that writes a processing status eventually writes a
\* terminal status and returns or throws, when every awaited call settles.
C18_Terminates == \A c \in Callers : Started(c) ~> Ended(c)

\* The call c started the removal of its temporary directory.
RemovalAttempted(c) ==
    \E k \in 1..Len(calls[c].trace) : calls[c].trace[k] = CallEvent("rm")

\* C19: when transcribeVideo has returned or thrown, the temporary directory
\* that the call created is removed or its removal was attempted.
C19_AudioDirReleased ==
    \A c \in DOMAIN calls :
       (/\ calls[c].kind = "speech"
        /\ calls[c].pc \in {"returned", "threw"}
        /\ calls[c].tempDir # None)
       => (calls[c].tempDir[1] \notin dirs \/ RemovalAttempted(c))

VisualCallStep(c) ==
    /\ calls[c].kind = "visual"
    /\ calls[c].pc = "call"
    /\ calls'[c] # calls[c]

\* The rows that getVisualAnalysis may read for the path of the call c.
LatestVisualRows(c) ==
    OrderByCreatedAtDescLimit1(WhereVideoPath(visual_analysis,
                                              calls[c].videoPath))

\* C21: analyzeVideoVisual returns a cached record without an analysis only
\* if forceReanalyze is false and the fps of the cached record is the fps
\* asked for; when re-analysis is forced or the cached fps differs, a new
\* analysisId is generated, its processing status is written and the analysis
\* starts, and an analysis that returns a result has invoked the engine.
C21_VisualHitNeedsSameFps ==
    [][\A c \in DOMAIN calls :
          /\ (/\ calls'[c].kind = "visual"
              /\ calls'[c].pc = "returned"
              /\ calls'[c].analysisId # None) => calls'[c].engineCalls > 0
          /\ VisualCallStep(c) =>
             /\ calls'[c].pc = "returned" =>
                   /\ ~calls[c].forceReanalyze
                   /\ \E row \in LatestVisualRows(c) :
                         /\ row.fps = calls[c].fps
                         /\ VisualRow(calls'[c].returned[1]) = row
                   /\ calls'[c].analysisId = None
                   /\ generated' = generated
                   /\ analysis_status' = analysis_status
             /\ (\/ calls[c].forceReanalyze
                 \/ \A row \in LatestVisualRows(c) : row.fps # calls[c].fps)
                => /\ calls'[c].pc = "getVideoInfo"
                   /\ calls'[c].analysisId = Some(GenerateAnalysisId(generated))
                   /\ generated' = generated + 1
                   /\ \E row \in analysis_status' \ analysis_status :
                         /\ row.analysis_id = calls'[c].analysisId[1]
                         /\ row.status = "processing"
                         /\ row.progress = 0]_vars

C21_Witness ==
    \E c \in DOMAIN calls :
       /\ calls[c].kind = "visual"
       /\ calls[c].pc = "returned"
       /\ ~calls[c].forceReanalyze
       /\ calls[c].fps = 2
       /\ VisualRow(CachedVisual) \in visual_analysis
       /\ calls[c].videoPath = CachedVisual.videoPath
       /\ calls[c].analysisId # None
       /\ calls[c].engineCalls > 0


\* C23: in a call of analyzeVideoVisual at most batchSize calls of the vision
\* engine are in flight, and the calls of a batch start only when no call of
\* an earlier batch is in flight.
C23_BatchBoundsEngineCalls ==
    [][\A c \in DOMAIN calls :
          calls[c].kind = "visual" =>
             /\ Cardinality(calls'[c].inflight) <= calls'[c].batchSize
             /\ calls'[c].engineCalls > calls[c].engineCalls =>
                   /\ calls[c].inflight = {}
                   /\ calls'[c].inflight = calls'[c].batch]_vars

C23_Witness ==
    \E c \in DOMAIN calls :
       /\ calls[c].kind = "visual"
       /\ calls[c].pc = "batch"
       /\ calls[c].i > 0
       /\ calls[c].inflight # {}
       /\ Len(calls[c].frameAnalyses) = calls[c].i

\* The status of a row is final.
Terminal(row) == row.status \in {"completed", "failed"}

IsStatusEvent(e) == e.ev = "status"

\* The statuses that a call has written, in the order of the writes.
StatusesWritten(call) == SelectSeq(call.trace, IsStatusEvent)

\* C26: a status row is first written as processing, and a row changes only
\* while it is processing, to processing, completed or failed: a row that is
\* completed or failed is left as it is by every later step, and no call
\* writes a status after it has written completed or failed.
C26_TerminalStatusKept ==
    [][/\ \A row \in analysis_status : Terminal(row) => row \in analysis_status'
       /\ \A row \in analysis_status' \ analysis_status :
             /\ row.status \in {"processing", "completed", "failed"}
             /\ \A old \in analysis_status :
                   old.analysis_id = row.analysis_id => old.status = "processing"
       /\ \A c \in DOMAIN calls' :
             LET written == StatusesWritten(calls'[c])
             IN  \A k \in 1..(Len(written) - 1) :
                    written[k].what = "processing"]_vars

\* C26 witness: a transcription has returned, or a visual analysis has
\* thrown, after the step that follows the last status (the removal of the
\* audio directory, the cleanup of the frames), and the row is completed, or
\* failed.
C26_Witness ==
    \E c \in DOMAIN calls :
       /\ calls[c].analysisId # None
       /\ \/ /\ calls[c].kind = "speech"
             /\ calls[c].pc = "returned"
             /\ \E row \in RowsOf(analysis_status, c) : row.status = "completed"
          \/ /\ calls[c].kind = "visual"
             /\ calls[c].pc = "threw"
             /\ calls[c].tempDir # None
             /\ \E row \in RowsOf(analysis_status, c) : row.status = "failed"

\* The table of the results of analyses of type `type`.
ResultsOfType(type) ==
    IF type = "speech" THEN speech_analysis ELSE visual_analysis

\* The call has written the status completed only after a call of the save
\* operation of its kind.
SavedBeforeCompleted(call) ==
    \A k \in 1..Len(call.trace) :
       (call.trace[k].ev = "status" /\ call.trace[k].what = "completed") =>
          \E j \in 1..(k - 1) :
             /\ call.trace[j].ev = "call"
             /\ call.trace[j].what =
                   (IF call.kind = "speech" THEN "saveSpeechAnalysis"
                    ELSE "saveVisualAnalysis")

\* C27: in every state between two steps, a status row that is completed has
\* a result row of the same analysisId in the table of its type, and a call
\* writes the status completed after it has saved its result.
C27_CompletedHasResult ==
    /\ \A row \in analysis_status :
          row.status = "completed" =>
             \E res \in ResultsOfType(row.type) :
                res.analysis_id = row.analysis_id
    /\ \A c \in DOMAIN calls : SavedBeforeCompleted(calls[c])

\* C27 witness: a call that found nothing in the cache has completed; its
\* status row and its result row are there.
C27_Witness ==
    \E c \in DOMAIN calls :
       /\ calls[c].analysisId # None
       /\ calls[c].result # None
       /\ ~calls[c].forceReanalyze
       /\ \E row \in RowsOf(analysis_status, c) : row.status = "completed"
       /\ \E res \in RowsOf(ResultsOfType(calls[c].kind), c) : TRUE

-----------------------------------------------------------------------------
\* Properties of reads during a re-analysis (ReanalysisSpec).

\* A task reads the record of the path that the call c analyses again, from
\* the table of the kind of c.
ReadsDuring(c) ==
    /\ outcome' # outcome
    /\ outcome'.op = (IF calls[c].kind = "speech" THEN "getSpeechAnalysis"
                      ELSE "getVisualAnalysis")
    /\ outcome'.arg = [videoPath |-> calls[c].videoPath]
    /\ calls[c].forceReanalyze

\* The record that was stored for a.mp4 before the call c.
Previous(c) == IF calls[c].kind = "speech" THEN CachedSpeech ELSE CachedVisual

\* C22: a read of the path during a forced re-analysis returns the record
\* stored before as long as the call has not saved its record, also after the
\* call has failed, and the whole record of the call once it is saved.
C22_ReadersSeeWholeRecords ==
    [][\A c \in DOMAIN calls :
          ReadsDuring(c) =>
             /\ outcome'.error = None
             /\ calls[c].result = None => outcome'.value = Previous(c)
             /\ calls[c].pc = "threw" => outcome'.value = Previous(c)
             /\ calls[c].result # None => outcome'.value = calls[c].result[1]]_vars

C22_Witness ==
    \E c \in DOMAIN calls :
       /\ calls[c].kind = "speech"
       /\ calls[c].forceReanalyze
       /\ calls[c].pc = "nodewhisper"
       /\ outcome = Returned("getSpeechAnalysis",
                             [videoPath |-> calls[c].videoPath], CachedSpeech)

-----------------------------------------------------------------------------
\* Properties of two interleaved transcriptions (ConcurrentSpec).

\* Both calls have passed the cache check and have generated their ids.
BothStarted(cs) == \A c \in DOMAIN cs : cs[c].analysisId # None

\* Both calls have saved their results.
BothSaved(cs) == \A c \in DOMAIN cs : cs[c].result # None

\* C28: two calls of transcribeVideo for one path that have both passed the
\* cache check have different analysisIds; a step of one call writes no
\* status row but that of its own id; each call invokes the engine at most
\* once, and once when it succeeds; when both have saved, the store holds a
\* row for each of the two results, and getSpeechAnalysis for the path
\* returns one of the two, of which the createdAt is not less than that of
\* the other.
C28_InterleavedCallsIndependent ==
    [][BothStarted(calls') =>
          /\ calls'[1].analysisId # calls'[2].analysisId
          /\ \A c \in DOMAIN calls :
                /\ calls'[c] # calls[c] =>
                      \A row \in analysis_status' \ analysis_status :
                         row.analysis_id = calls'[c].analysisId[1]
                /\ calls'[c].engineCalls <= 1
                /\ calls'[c].result # None => calls'[c].engineCalls = 1
          /\ BothSaved(calls') =>
                /\ \A c \in DOMAIN calls :
                      SpeechRow(calls'[c].result[1]) \in speech_analysis'
                /\ SpeechRow(calls'[1].result[1]) # SpeechRow(calls'[2].result[1])
                /\ (/\ outcome' # outcome
                    /\ outcome'.op = "getSpeechAnalysis"
                    /\ outcome'.arg = [videoPath |-> calls[1].videoPath]) =>
                      /\ outcome'.error = None
                      /\ \E c \in DOMAIN calls :
                            outcome'.value = calls'[c].result[1]
                      /\ \A c \in DOMAIN calls :
                            outcome'.value.createdAt >=
                               calls'[c].result[1].createdAt]_vars

\* C28 witness: neither call was forced, both have returned their own
\* results, the second saved later than the first, and a read of the path
\* has returned the result of the second.
C28_Witness ==
    /\ Len(calls) = 2
    /\ \A c \in DOMAIN calls :
          /\ ~calls[c].forceReanalyze
          /\ calls[c].pc = "returned"
          /\ calls[c].result # None
          /\ calls[c].returned = calls[c].result
    /\ calls[1].result[1].createdAt < calls[2].result[1].createdAt
    /\ outcome = Returned("getSpeechAnalysis",
                          [videoPath |-> calls[1].videoPath],
                          calls[2].result[1])

-----------------------------------------------------------------------------
\* Properties of PremiereBridge (BridgeSpec).

SettledAsClaimed == {"response", "timeout", "disconnect"}

\* C29: a command that sendCommand has registered is in pendingCommands
\* until resolve or reject is called for it, which happens once, by a
\* response with its id, by its timeout or by disconnect(), and takes it out
\* of pendingCommands; a message that is no response to a pending command
\* changes neither pendingCommands nor a promise nor a timeout; sendCommand
\* on a bridge that is not connected rejects and registers nothing.
C29_CommandsSettledOnce ==
    [][/\ \A id \in CommandIds :
             LET p == promises'[id]
             IN  /\ Len(p.settles) <= 1
                 /\ id \in bridge'.pendingCommands =>
                       p.registered /\ p.settles = <<>>
                 /\ (p.registered /\ id \notin bridge'.pendingCommands) =>
                       /\ Len(p.settles) = 1
                       /\ p.settles[1] \in SettledAsClaimed
                 /\ (p.called /\ ~p.registered) =>
                       p.settles = <<"not connected">>
       /\ \A s \in DOMAIN sockets : \A data \in Messages(s) :
             (/\ OnMessage(s, data)
              /\ ~(data.parses /\ data.id \in bridge.pendingCommands)) =>
                UNCHANGED <<bridge, promises, timeouts>>
       /\ \A id \in CommandIds :
             (SendCommand(id) /\ (~bridge.connected \/ bridge.ws = None)) =>
                /\ UNCHANGED <<bridge, timeouts, sockets>>
                /\ ~promises'[id].registered]_vars

\* C30: from disconnect() to the next call of connect() by a client,
\* connected is false, reconnectTimer is null, no timeout of scheduleReconnect
\* is pending and no WebSocket is constructed; at most one timeout of
\* scheduleReconnect is pending at any time.
C30_StaysDisconnected ==
    [][/\ disconnected' =>
             /\ ~bridge'.connected
             /\ bridge'.reconnectTimer = None
             /\ reconnects' = {}
       /\ (disconnected /\ disconnected') => Len(sockets') = Len(sockets)
       /\ Cardinality(reconnects') <= 1]_vars

=============================================================================
